---- MODULE Spec2Model ----
(***************************************************************************)
(* rdu: the tree builder (scanner.rs, scan_dir) and the navigation / sort  *)
(* state machine (app.rs, App), as driven by the event loop (main.rs,      *)
(* run_app).                                                               *)
(*                                                                         *)
(* Paths are sequences of names.  A walker result carries its path         *)
(* relative to the scan root; the entry path the code sees is the scan     *)
(* root's path followed by it.  Rc<RefCell<FileNode>> handles are node     *)
(* ids into a heap of FileNode records.                                    *)
(***************************************************************************)
EXTENDS Integers, Sequences, FiniteSets, TLC

VARIABLES
    scan,       \* scan_dir's locals while a build runs (scanner.rs)
    app,        \* the App struct and the nodes its handles reach (app.rs)
    last_op,    \* the arm of run_app's match the last key press took (main.rs)
    running,    \* FALSE once run_app has returned
    refreshes,  \* how many rescans the session has made
    scanned,    \* history: for each node a scan was rooted at, the failures
                \* of the most recent such scan
    term        \* the terminal's modes and the statement main is at (main.rs)

vars == <<scan, app, last_op, running, refreshes, scanned, term>>

----------------------------------------------------------------------------
(* Bounds of the model *)

MaxName == 2          \* names of the entries of one directory: 1..MaxName
MaxDepth == 3         \* depth of an entry below the scan root
MaxEntries == 3       \* entries of a file system the builder is checked on
MaxSize == 2          \* byte length of a file: 1..MaxSize
MaxMTime == 1         \* modification times: 1..MaxMTime
MaxWalkErrors == 1    \* enumeration errors of one walk
MaxWide == 12         \* entries of the one wide directory the session may start in
MaxNavEntries == 2    \* entries of the other trees a session starts in
MaxRefreshEntries == 2  \* entries a rescan finds below the current directory
MaxRefresh == 1         \* rescans in one session
MaxFailedEntries == 1   \* entries of the trees whose initial build had a failed read
MaxVolEntries == 2      \* entries of the file systems that span volumes
MaxMainEntries == 1     \* entries a walk finds in a session followed from main's start

----------------------------------------------------------------------------
(* Option<T>, Ordering *)

None == [some |-> FALSE, v |-> 0]
Some(x) == [some |-> TRUE, v |-> x]

\* Ord::cmp on u64 / usize; an Ordering is -1 (Less), 0 (Equal) or 1 (Greater)
CmpInt(a, b) == IF a < b THEN -1 ELSE IF a > b THEN 1 ELSE 0

\* the comparison with None above every Some
CmpOption_none_last(a, b) ==
    IF ~a.some THEN (IF b.some THEN 1 ELSE 0)
    ELSE IF ~b.some THEN -1
    ELSE CmpInt(a.v, b.v)

\* Ord::cmp on Option<SystemTime>: None is below every Some
CmpOption(a, b) ==
    IF ~a.some THEN (IF b.some THEN -1 ELSE 0)
    ELSE IF ~b.some THEN 1
    ELSE CmpInt(a.v, b.v)

\* Ordering::reverse
Reverse(c) == 0 - c

\* slice::sort_by: a stable sort; Cmp(x, y) is the comparator's Ordering.
\* Built by stable insertion: x goes after every element not greater than it.
StableSortBy(s, Cmp(_, _)) ==
    LET Insert(t, x) ==
            LET k == Cardinality({j \in 1..Len(t) : Cmp(t[j], x) <= 0})
            IN SubSeq(t, 1, k) \o <<x>> \o SubSeq(t, k + 1, Len(t))
        sorted[n \in 0..Len(s)] ==
            IF n = 0 THEN <<>>
            ELSE LET prev == sorted[n - 1] IN Insert(prev, s[n])
    IN sorted[Len(s)]

RECURSIVE SumSeq(_)
SumSeq(s) == IF s = <<>> THEN 0 ELSE Head(s) + SumSeq(Tail(s))

Range(s) == {s[i] : i \in 1..Len(s)}

----------------------------------------------------------------------------
(* Paths *)

\* Path::parent: None for a path with no components
HasParent(p) == Len(p) > 0
Parent(p) == SubSeq(p, 1, Len(p) - 1)

\* Path::file_name().unwrap_or_default(): the last component, 0 for none
FileName(p) == IF Len(p) = 0 THEN 0 ELSE p[Len(p)]

\* path.components().count()
Depth(p) == Len(p)

----------------------------------------------------------------------------
(* FileNode (file_node.rs) *)

\* FileNode::new
FileNodeNew(path, name, size, is_dir, mtime) ==
    [name |-> name, path |-> path, size |-> size, is_dir |-> is_dir,
     children |-> <<>>, error_count |-> 0, modified_time |-> mtime]

\* FileNode::child_count
child_count(node) == Len(node.children)

----------------------------------------------------------------------------
(* The file system as the Entry Source (jwalk) and stat see it *)

\* What fs::metadata / fs::symlink_metadata return for a path
StatFile(len, mtime) ==
    [ok |-> TRUE, is_file |-> TRUE, is_dir |-> FALSE, len |-> len, modified |-> mtime]
StatDir(mtime) ==
    [ok |-> TRUE, is_file |-> FALSE, is_dir |-> TRUE, len |-> 1, modified |-> mtime]
StatErr ==
    [ok |-> FALSE, is_file |-> FALSE, is_dir |-> FALSE, len |-> 0, modified |-> None]

\* One item of the walker: Ok(entry) with the entry's path below the scan root,
\* what the two stat calls say of it and its volume id, or Err.
WalkOk(rel, meta, lmeta, vol) ==
    [ok |-> TRUE, path |-> rel, meta |-> meta, lmeta |-> lmeta, vol |-> vol]
WalkErr ==
    [ok |-> FALSE, path |-> <<>>, meta |-> StatErr, lmeta |-> StatErr, vol |-> None]

Names == 1..MaxName

\* The paths that can be added to the path set S: children of the root or of
\* a member, names used in order.
Ext(S) ==
    {q \in {Append(p, c) : p \in S \cup {<<>>}, c \in Names} :
        /\ q \notin S
        /\ Len(q) <= MaxDepth
        /\ (q[Len(q)] = 1 \/ Append(Parent(q), q[Len(q)] - 1) \in S)}

\* The parent-closed path sets of at most k paths
RECURSIVE Shapes(_)
Shapes(k) ==
    IF k = 0 THEN {{}}
    ELSE LET prev == Shapes(k - 1)
         IN prev \cup UNION {{S \cup {q} : q \in Ext(S)} : S \in prev}

HasEntryBelow(S, p) == \E q \in S : HasParent(q) /\ Parent(q) = p

\* The results of a walk of the paths S, stat[p] being what stat says of p:
\* jwalk yields the root itself and every path once.  Only a directory (or a
\* path whose stat fails) has entries below it.
WalkResults(S, stat) ==
    {WalkOk(<<>>, StatDir(None), StatDir(None), Some(0))}
        \cup {WalkOk(p, stat[p], stat[p], Some(0)) : p \in S}

WellFormed(S, stat) ==
    \A p \in S : HasEntryBelow(S, p) => (stat[p].is_dir \/ ~stat[p].ok)

\* the results by path, a directory before its entries: one of the orders
\* the walker can deliver them in, the one the builds are compared with
PathCode(p) ==
    LET code[n \in 0..MaxDepth] ==
            IF n = 0 THEN 0
            ELSE code[n - 1] * (MaxName + MaxWide + 1) + (IF n <= Len(p) THEN p[n] ELSE 0)
    IN code[MaxDepth]

WalkOrder(results) ==
    LET pos(r) == Cardinality({q \in results : PathCode(q.path) < PathCode(r.path)}) + 1
    IN [i \in 1..Cardinality(results) |-> CHOOSE r \in results : pos(r) = i]

\* The orders the walker delivers results in to a session: it is given no
\* sort (scanner.rs:32-36) and delivers the scanned path first and then the
\* entries as the directories list them, which is any order.
WalkOrders(results) ==
    {s \in [1..Cardinality(results) -> results] :
        Range(s) = results /\ s[1].path = <<>>}

----------------------------------------------------------------------------
(* scan_dir (scanner.rs) *)

\* walk_entry with the length stat reports recorded for every entry, a
\* directory's too
walk_entry_any_len(w, r, root_path, root_vol, args) ==
    IF ~r.ok THEN [w EXCEPT !.error_count = @ + 1]
    ELSE
        LET entry_path == root_path \o r.path
            meta == IF args.follow_links THEN r.meta ELSE r.lmeta
        IN  IF entry_path = root_path THEN w
            ELSE IF /\ args.one_file_system
                    /\ root_vol.some /\ r.vol.some
                    /\ root_vol.v # r.vol.v THEN w
            ELSE IF meta.ok
                THEN [w EXCEPT !.entries =
                        Append(@, [path |-> entry_path,
                                   size |-> meta.len,
                                   is_dir |-> meta.is_dir,
                                   mtime |-> meta.modified])]
            ELSE [w EXCEPT !.error_count = @ + 1]

\* walk_entry skipping an entry also when a volume id could not be read
walk_entry_skip_unknown(w, r, root_path, root_vol, args) ==
    IF ~r.ok THEN [w EXCEPT !.error_count = @ + 1]
    ELSE
        LET entry_path == root_path \o r.path
            meta == IF args.follow_links THEN r.meta ELSE r.lmeta
        IN  IF entry_path = root_path THEN w
            ELSE IF /\ args.one_file_system
                    /\ (~root_vol.some \/ ~r.vol.some \/ root_vol.v # r.vol.v) THEN w
            ELSE IF meta.ok
                THEN [w EXCEPT !.entries =
                        Append(@, [path |-> entry_path,
                                   size |-> IF meta.is_file THEN meta.len ELSE 0,
                                   is_dir |-> meta.is_dir,
                                   mtime |-> meta.modified])]
            ELSE [w EXCEPT !.error_count = @ + 1]

\* walk_entry giving up at the first failure: nothing yielded after it is
\* looked at
walk_entry_abort(w, r, root_path, root_vol, args) ==
    IF w.error_count > 0 THEN w
    ELSE IF ~r.ok THEN [w EXCEPT !.error_count = @ + 1]
    ELSE
        LET entry_path == root_path \o r.path
            meta == IF args.follow_links THEN r.meta ELSE r.lmeta
        IN  IF entry_path = root_path THEN w
            ELSE IF /\ args.one_file_system
                    /\ root_vol.some /\ r.vol.some
                    /\ root_vol.v # r.vol.v THEN w
            ELSE IF meta.ok
                THEN [w EXCEPT !.entries =
                        Append(@, [path |-> entry_path,
                                   size |-> IF meta.is_file THEN meta.len ELSE 0,
                                   is_dir |-> meta.is_dir,
                                   mtime |-> meta.modified])]
            ELSE [w EXCEPT !.error_count = @ + 1]

\* One iteration of the loop over the walker (lines 38-94); w holds the
\* entries collected so far and the error counter.
walk_entry(w, r, root_path, root_vol, args) ==
    IF ~r.ok THEN [w EXCEPT !.error_count = @ + 1]
    ELSE
        LET entry_path == root_path \o r.path
            meta == IF args.follow_links THEN r.meta ELSE r.lmeta
        IN  IF entry_path = root_path THEN w
            ELSE IF /\ args.one_file_system
                    /\ root_vol.some /\ r.vol.some
                    /\ root_vol.v # r.vol.v THEN w
            ELSE IF meta.ok
                THEN [w EXCEPT !.entries =
                        Append(@, [path |-> entry_path,
                                   size |-> IF meta.is_file THEN meta.len ELSE 0,
                                   is_dir |-> meta.is_dir,
                                   mtime |-> meta.modified])]
            ELSE [w EXCEPT !.error_count = @ + 1]

\* lines 97-108: the lookup table and the root node, whose id is `id`
create_root(root_path, root_mtime, error_count, id) ==
    [heap |-> (id :> [FileNodeNew(root_path, FileName(root_path), 0, TRUE, root_mtime)
                        EXCEPT !.error_count = error_count]),
     nodes |-> (root_path :> id)]

\* the entries left in the order the walker delivered them
sort_entries_unsorted(entries) == entries

\* lines 111-112: entries by path depth, a stable sort
sort_entries(entries) ==
    StableSortBy(entries, LAMBDA a, b : CmpInt(Depth(a.path), Depth(b.path)))

\* HashMap::insert
MapInsert(m, k, v) == [x \in DOMAIN m \cup {k} |-> IF x = k THEN v ELSE m[x]]

\* the forward pass pushing an entry whose parent has no node to the node
\* of its nearest ancestor that has one
link_entry_adopting(b, e, id) ==
    LET node == FileNodeNew(e.path, FileName(e.path), e.size, e.is_dir, e.mtime)
        heap1 == [x \in DOMAIN b.heap \cup {id} |-> IF x = id THEN node ELSE b.heap[x]]
        nodes1 == MapInsert(b.nodes, e.path, id)
        above == {q \in DOMAIN b.nodes :
                    Len(q) < Len(e.path) /\ SubSeq(e.path, 1, Len(q)) = q}
    IN  IF above # {}
        THEN LET q == CHOOSE q \in above : \A r \in above : Len(r) <= Len(q)
                 parent == nodes1[q]
             IN [heap |-> [heap1 EXCEPT
                            ![parent].children = Append(@, id),
                            ![parent].size = IF ~e.is_dir THEN @ + e.size ELSE @],
                 nodes |-> nodes1]
        ELSE [heap |-> heap1, nodes |-> nodes1]

\* the forward pass with the node left out of the lookup table
link_entry_no_insert(b, e, id) ==
    LET node == FileNodeNew(e.path, FileName(e.path), e.size, e.is_dir, e.mtime)
        heap1 == [x \in DOMAIN b.heap \cup {id} |-> IF x = id THEN node ELSE b.heap[x]]
    IN  IF HasParent(e.path) /\ Parent(e.path) \in DOMAIN b.nodes
        THEN LET parent == b.nodes[Parent(e.path)]
             IN [heap |-> [heap1 EXCEPT
                            ![parent].children = Append(@, id),
                            ![parent].size = IF ~e.is_dir THEN @ + e.size ELSE @],
                 nodes |-> b.nodes]
        ELSE [heap |-> heap1, nodes |-> b.nodes]

\* One iteration of the forward pass (lines 115-139): the node of entry e is
\* created with id `id`, entered in the table and pushed to its parent.
link_entry(b, e, id) ==
    LET node == FileNodeNew(e.path, FileName(e.path), e.size, e.is_dir, e.mtime)
        heap1 == [x \in DOMAIN b.heap \cup {id} |-> IF x = id THEN node ELSE b.heap[x]]
        nodes1 == MapInsert(b.nodes, e.path, id)
    IN  IF HasParent(e.path) /\ Parent(e.path) \in DOMAIN nodes1
        THEN LET parent == nodes1[Parent(e.path)]
             IN [heap |-> [heap1 EXCEPT
                            ![parent].children = Append(@, id),
                            ![parent].size = IF ~e.is_dir THEN @ + e.size ELSE @],
                 nodes |-> nodes1]
        ELSE [heap |-> heap1, nodes |-> nodes1]

\* the reverse pass left out
propagate_entry_skip(b, e) == b

\* the reverse pass adding a directory's size to each of its ancestors
propagate_entry_all_ancestors(b, e) ==
    IF e.is_dir /\ e.path \in DOMAIN b.nodes
    THEN LET dir_size == b.heap[b.nodes[e.path]].size
             above == {b.nodes[q] : q \in {q \in DOMAIN b.nodes :
                            Len(q) < Len(e.path) /\ SubSeq(e.path, 1, Len(q)) = q}}
         IN [b EXCEPT !.heap = [x \in DOMAIN b.heap |->
                IF x \in above THEN [b.heap[x] EXCEPT !.size = @ + dir_size]
                ELSE b.heap[x]]]
    ELSE b

\* One iteration of the reverse pass (lines 142-151)
propagate_entry(b, e) ==
    IF e.is_dir /\ e.path \in DOMAIN b.nodes
    THEN LET dir_size == b.heap[b.nodes[e.path]].size
         IN  IF HasParent(e.path) /\ Parent(e.path) \in DOMAIN b.nodes
             THEN [b EXCEPT !.heap[b.nodes[Parent(e.path)]].size = @ + dir_size]
             ELSE b
    ELSE b

\* the reverse pass run shallowest first
rev_index_forward(n, i) == i

\* line 142, sorted_entries.iter().rev(): the entry the i-th iteration visits
rev_index(n, i) == n + 1 - i

\* scan_dir as a function of what the walker yields, in the order it yields
\* it.  The nodes it creates get the ids base, base + 1, ...; the result is
\* the heap of those nodes and the id of the returned root.
scan_dir(root_path, args, yielded, root_mtime, root_vol, base) ==
    LET walked[n \in 0..Len(yielded)] ==
            IF n = 0 THEN [entries |-> <<>>, error_count |-> 0]
            ELSE walk_entry(walked[n - 1], yielded[n], root_path, root_vol, args)
        w == walked[Len(yielded)]
        sorted_entries == sort_entries(w.entries)
        n == Len(sorted_entries)
        linked[i \in 0..n] ==
            IF i = 0 THEN create_root(root_path, root_mtime, w.error_count, base)
            ELSE link_entry(linked[i - 1], sorted_entries[i], base + i)
        propagated[i \in 0..n] ==
            IF i = 0 THEN linked[n]
            ELSE propagate_entry(propagated[i - 1], sorted_entries[rev_index(n, i)])
    IN [heap |-> propagated[n].heap, root |-> base, next_id |-> base + n + 1]

----------------------------------------------------------------------------
(* Reading a tree *)

\* the nodes reachable from node `root` through children, itself included
Reach(heap, root) ==
    LET n == Cardinality(DOMAIN heap)
        step[k \in 0..n] ==
            IF k = 0 THEN {root}
            ELSE LET prev == step[k - 1]
                 IN prev \cup UNION {Range(heap[x].children) : x \in prev}
    IN step[n]

\* the sum of the size fields of the direct children of node x
ChildSizes(heap, x) ==
    SumSeq([i \in 1..Len(heap[x].children) |-> heap[heap[x].children[i]].size])

IsPrefix(p, q) == Len(p) < Len(q) /\ SubSeq(q, 1, Len(p)) = p

\* the sum of the sizes of the recorded file entries anywhere below path p
FileSizesBelow(entries, p) ==
    SumSeq([i \in 1..Len(entries) |->
        IF ~entries[i].is_dir /\ IsPrefix(p, entries[i].path)
        THEN entries[i].size ELSE 0])

\* every recorded entry lies in the root or in a recorded directory
ParentClosed(entries, root_path) ==
    \A i \in 1..Len(entries) :
        \/ Parent(entries[i].path) = root_path
        \/ \E j \in 1..Len(entries) :
            entries[j].path = Parent(entries[i].path) /\ entries[j].is_dir

NodeAt(heap, p) == CHOOSE x \in DOMAIN heap : heap[x].path = p
PathsOf(heap) == {heap[x].path : x \in DOMAIN heap}

\* the build of the same walk results delivered by path
ReferenceScan ==
    scan_dir(scan.root_path, scan.args,
             WalkOrder(scan.fs) \o [i \in 1..scan.walk_errs |-> WalkErr],
             scan.root_mtime, scan.root_vol, 1)

----------------------------------------------------------------------------
(* SortMode (sort.rs) *)

SortModes == {"Size", "ModifiedTime", "ItemCount"}

\* SortMode::name
SortModeName(mode) ==
    CASE mode = "Size" -> "size"
      [] mode = "ModifiedTime" -> "mtime"
      [] mode = "ItemCount" -> "count"

----------------------------------------------------------------------------
(* App (app.rs).  An App value `a` holds the fields of the struct, the heap *)
(* of the nodes its handles keep alive and the next free node id.  state   *)
(* (the ListState) is modelled by its selected index.                      *)

NoMessage == <<>>

\* dropping the handles that went out of scope frees every node no handle of
\* the App reaches any more
DropUnreachable(a) ==
    LET live == UNION {Reach(a.heap, h) :
                    h \in {a.root, a.current_node} \cup Range(a.path_history)}
    IN [a EXCEPT !.heap = [x \in live |-> a.heap[x]]]

\* App::current_children, lines 99-101
current_children(a) == a.heap[a.current_node].children

\* App::current_path, lines 103-105
current_path(a) == a.heap[a.current_node].path

\* App::current_total_size, lines 107-111
current_total_size(a) == ChildSizes(a.heap, a.current_node)

\* the comparator of sort_current_view, lines 54-63
sort_cmp(heap, sort_mode, ascending, x, y) ==
    LET cmp == CASE sort_mode = "Size" -> CmpInt(heap[x].size, heap[y].size)
                 [] sort_mode = "ModifiedTime" ->
                        CmpOption(heap[x].modified_time, heap[y].modified_time)
                 [] sort_mode = "ItemCount" ->
                        CmpInt(child_count(heap[x]), child_count(heap[y]))
    IN IF ascending THEN cmp ELSE Reverse(cmp)

\* sort_current_view sorting ascending and reversing the list for descending
sort_current_view_reversing(a) ==
    LET asc == StableSortBy(a.heap[a.current_node].children, LAMBDA x, y :
                    sort_cmp(a.heap, a.sort_mode, TRUE, x, y))
    IN [a EXCEPT !.heap[a.current_node].children =
            IF a.sort_ascending THEN asc
            ELSE [i \in 1..Len(asc) |-> asc[Len(asc) + 1 - i]]]

\* App::sort_current_view, lines 50-64
sort_current_view(a) ==
    [a EXCEPT !.heap[a.current_node].children =
        StableSortBy(@, LAMBDA x, y :
            sort_cmp(a.heap, a.sort_mode, a.sort_ascending, x, y))]

\* the status line of the toggles, lines 74, 85, 96
SortMessage(a) ==
    <<"Sort: ", SortModeName(a.sort_mode), " ",
      IF a.sort_ascending THEN "asc" ELSE "desc">>

\* toggle_sort keeping the direction when the dimension changes
toggle_sort_keep_direction(a, mode) ==
    LET a1 == IF a.sort_mode = mode
              THEN [a EXCEPT !.sort_ascending = ~a.sort_ascending]
              ELSE [a EXCEPT !.sort_mode = mode]
        a2 == sort_current_view(a1)
    IN [a2 EXCEPT !.status_message = SortMessage(a2)]

\* toggle_sort moving the selection to the first child after the sort
toggle_sort_reselecting(a, mode) ==
    LET a1 == IF a.sort_mode = mode
              THEN [a EXCEPT !.sort_ascending = ~a.sort_ascending]
              ELSE [a EXCEPT !.sort_mode = mode, !.sort_ascending = FALSE]
        a2 == sort_current_view(a1)
    IN [a2 EXCEPT !.status_message = SortMessage(a2),
                  !.selected = IF current_children(a2) # <<>> THEN Some(0) ELSE None]

\* the body the three toggles share, for the dimension `mode`
toggle_sort(a, mode) ==
    LET a1 == IF a.sort_mode = mode
              THEN [a EXCEPT !.sort_ascending = ~a.sort_ascending]
              ELSE [a EXCEPT !.sort_mode = mode, !.sort_ascending = FALSE]
        a2 == sort_current_view(a1)
    IN [a2 EXCEPT !.status_message = SortMessage(a2)]

\* App::toggle_sort_by_size, lines 66-75
toggle_sort_by_size(a) == toggle_sort(a, "Size")

\* App::toggle_sort_by_mtime, lines 77-86
toggle_sort_by_mtime(a) == toggle_sort(a, "ModifiedTime")

\* App::toggle_sort_by_count, lines 88-97
toggle_sort_by_count(a) == toggle_sort(a, "ItemCount")

\* App::new without the call of sort_current_view
AppNew_unsorted(built, args) ==
    LET a0 == [heap |-> built.heap, next_id |-> built.next_id,
               root |-> built.root, current_node |-> built.root,
               path_history |-> <<>>, selected |-> None, args |-> args,
               status_message |-> NoMessage, show_help |-> FALSE,
               sort_mode |-> "Size", sort_ascending |-> FALSE]
        a1 == DropUnreachable(a0)
    IN IF current_children(a1) # <<>> THEN [a1 EXCEPT !.selected = Some(0)] ELSE a1

\* App::new, lines 29-48, on the tree scan_dir returned
AppNew(built, args) ==
    LET a0 == [heap |-> built.heap, next_id |-> built.next_id,
               root |-> built.root, current_node |-> built.root,
               path_history |-> <<>>, selected |-> None, args |-> args,
               status_message |-> NoMessage, show_help |-> FALSE,
               sort_mode |-> "Size", sort_ascending |-> FALSE]
        a1 == sort_current_view(DropUnreachable(a0))
    IN IF current_children(a1) # <<>> THEN [a1 EXCEPT !.selected = Some(0)] ELSE a1

\* next stepping on from the last index instead of wrapping to 0
next_no_wrap(a) ==
    LET children == current_children(a)
        i == IF a.selected.some THEN a.selected.v + 1 ELSE 0
    IN IF children # <<>> THEN [a EXCEPT !.selected = Some(i)] ELSE a

\* App::next, lines 113-128
next(a) ==
    LET children == current_children(a)
        i == IF a.selected.some
             THEN (IF children # <<>> /\ a.selected.v >= Len(children) - 1
                   THEN 0 ELSE a.selected.v + 1)
             ELSE 0
    IN IF children # <<>> THEN [a EXCEPT !.selected = Some(i)] ELSE a

\* previous without the check that there are children
previous_unguarded(a) ==
    LET children == current_children(a)
        i == IF a.selected.some
             THEN (IF a.selected.v = 0
                   THEN (IF children # <<>> THEN Len(children) - 1 ELSE 0)
                   ELSE a.selected.v - 1)
             ELSE 0
    IN [a EXCEPT !.selected = Some(i)]

\* previous staying at index 0 instead of wrapping to the last index
previous_no_wrap(a) ==
    LET children == current_children(a)
        i == IF a.selected.some
             THEN (IF a.selected.v = 0 THEN 0 ELSE a.selected.v - 1)
             ELSE 0
    IN IF children # <<>> THEN [a EXCEPT !.selected = Some(i)] ELSE a

\* App::previous, lines 130-149
previous(a) ==
    LET children == current_children(a)
        i == IF a.selected.some
             THEN (IF a.selected.v = 0
                   THEN (IF children # <<>> THEN Len(children) - 1 ELSE 0)
                   ELSE a.selected.v - 1)
             ELSE 0
    IN IF children # <<>> THEN [a EXCEPT !.selected = Some(i)] ELSE a

\* let page_size = 10, lines 156 and 169
page_size == 10

Min(x, y) == IF x <= y THEN x ELSE y

\* usize::saturating_sub
SaturatingSub(x, y) == IF x >= y THEN x - y ELSE 0

\* page_down without the clamp to the last index
page_down_unclamped(a) ==
    LET children == current_children(a)
    IN  IF children = <<>> THEN a
        ELSE [a EXCEPT !.selected =
                Some(IF a.selected.some THEN a.selected.v + page_size ELSE 0)]

\* App::page_down, lines 151-162
page_down(a) ==
    LET children == current_children(a)
    IN  IF children = <<>> THEN a
        ELSE [a EXCEPT !.selected =
                Some(IF a.selected.some
                     THEN Min(a.selected.v + page_size, Len(children) - 1)
                     ELSE 0)]

\* App::page_up, lines 164-175
page_up(a) ==
    LET children == current_children(a)
    IN  IF children = <<>> THEN a
        ELSE [a EXCEPT !.selected =
                Some(IF a.selected.some
                     THEN SaturatingSub(a.selected.v, page_size)
                     ELSE 0)]

\* App::go_to_first, lines 177-182
go_to_first(a) ==
    IF current_children(a) # <<>> THEN [a EXCEPT !.selected = Some(0)] ELSE a

\* App::go_to_last, lines 184-189
go_to_last(a) ==
    LET children == current_children(a)
    IN IF children # <<>> THEN [a EXCEPT !.selected = Some(Len(children) - 1)] ELSE a

\* the selection put at 0 whether or not there are children
select_first_always(a) == [a EXCEPT !.selected = Some(0)]

\* selection after the view changed: Some(0) if there are children, else None
\* (lines 202-207, 217-222, 240-245)
select_first(a) ==
    [a EXCEPT !.selected = IF current_children(a) = <<>> THEN None ELSE Some(0)]

\* enter_dir leaving the selection at the index it had in the directory left
enter_dir_keep_selection(a) ==
    LET children == current_children(a)
    IN  IF a.selected.some /\ a.selected.v < Len(children)
        THEN LET selected == children[a.selected.v + 1]
             IN IF a.heap[selected].is_dir
                THEN sort_current_view(
                        [a EXCEPT !.path_history = Append(@, a.current_node),
                                  !.current_node = selected])
                ELSE a
        ELSE a

\* enter_dir without the push of the directory left onto the history
enter_dir_no_push(a) ==
    LET children == current_children(a)
    IN  IF a.selected.some /\ a.selected.v < Len(children)
        THEN LET selected == children[a.selected.v + 1]
             IN IF a.heap[selected].is_dir
                THEN select_first(sort_current_view(
                        [a EXCEPT !.current_node = selected]))
                ELSE a
        ELSE a

\* enter_dir without the check that the selected child is a directory
enter_dir_any(a) ==
    LET children == current_children(a)
    IN  IF a.selected.some /\ a.selected.v < Len(children)
        THEN LET selected == children[a.selected.v + 1]
             IN select_first(sort_current_view(
                        [a EXCEPT !.path_history = Append(@, a.current_node),
                                  !.current_node = selected]))
        ELSE a

\* App::enter_dir, lines 192-210; the index is 0-based, the sequence 1-based
enter_dir(a) ==
    LET children == current_children(a)
    IN  IF a.selected.some /\ a.selected.v < Len(children)
        THEN LET selected == children[a.selected.v + 1]
             IN IF a.heap[selected].is_dir
                THEN select_first(sort_current_view(
                        [a EXCEPT !.path_history = Append(@, a.current_node),
                                  !.current_node = selected]))
                ELSE a
        ELSE a

\* go_up leaving the selection as it was in the directory left
go_up_no_reselect(a) ==
    IF a.path_history # <<>>
    THEN LET parent == a.path_history[Len(a.path_history)]
         IN sort_current_view(
                [a EXCEPT !.path_history = SubSeq(@, 1, Len(@) - 1),
                          !.current_node = parent])
    ELSE a

\* go_up without the call of sort_current_view
go_up_no_resort(a) ==
    IF a.path_history # <<>>
    THEN LET parent == a.path_history[Len(a.path_history)]
         IN select_first(
                [a EXCEPT !.path_history = SubSeq(@, 1, Len(@) - 1),
                          !.current_node = parent])
    ELSE a

\* go_up returning to the first directory of the history, not the last
go_up_to_root(a) ==
    IF a.path_history # <<>>
    THEN LET parent == a.path_history[1]
         IN select_first(sort_current_view(
                [a EXCEPT !.path_history = <<>>,
                          !.current_node = parent]))
    ELSE a

\* App::go_up, lines 213-224
go_up(a) ==
    IF a.path_history # <<>>
    THEN LET parent == a.path_history[Len(a.path_history)]
         IN select_first(sort_current_view(
                [a EXCEPT !.path_history = SubSeq(@, 1, Len(@) - 1),
                          !.current_node = parent]))
    ELSE a

\* refresh leaving the size of the current node as it was
refresh_stale_size(a, fs) ==
    LET path == current_path(a)
        built == scan_dir(path, a.args, fs.yielded, fs.root_mtime, fs.root_vol, a.next_id)
        new_node == built.heap[built.root]
        heap1 == [x \in DOMAIN a.heap \cup DOMAIN built.heap |->
                    IF x \in DOMAIN built.heap THEN built.heap[x] ELSE a.heap[x]]
        a1 == [a EXCEPT !.heap = [heap1 EXCEPT
                            ![a.current_node].children = new_node.children,
                            ![a.current_node].error_count = new_node.error_count],
                        !.next_id = built.next_id]
        a2 == select_first(sort_current_view(DropUnreachable(a1)))
    IN [a2 EXCEPT !.status_message = <<"Refresh complete!">>]

\* refresh making the freshly built root the current node instead of
\* updating the current node in place
refresh_replace_current(a, fs) ==
    LET path == current_path(a)
        built == scan_dir(path, a.args, fs.yielded, fs.root_mtime, fs.root_vol, a.next_id)
        heap1 == [x \in DOMAIN a.heap \cup DOMAIN built.heap |->
                    IF x \in DOMAIN built.heap THEN built.heap[x] ELSE a.heap[x]]
        a1 == [a EXCEPT !.heap = heap1, !.current_node = built.root,
                        !.next_id = built.next_id]
        a2 == select_first(sort_current_view(DropUnreachable(a1)))
    IN [a2 EXCEPT !.status_message = <<"Refresh complete!">>]

\* refresh carrying the change of the current node's size up to the nodes of
\* the history
refresh_propagating(a, fs) ==
    LET path == current_path(a)
        built == scan_dir(path, a.args, fs.yielded, fs.root_mtime, fs.root_vol, a.next_id)
        new_node == built.heap[built.root]
        old_size == a.heap[a.current_node].size
        heap1 == [x \in DOMAIN a.heap \cup DOMAIN built.heap |->
                    IF x \in DOMAIN built.heap THEN built.heap[x]
                    ELSE IF x \in Range(a.path_history)
                         THEN [a.heap[x] EXCEPT !.size = @ + new_node.size - old_size]
                         ELSE a.heap[x]]
        a1 == [a EXCEPT !.heap = [heap1 EXCEPT
                            ![a.current_node].children = new_node.children,
                            ![a.current_node].size = new_node.size,
                            ![a.current_node].error_count = new_node.error_count],
                        !.next_id = built.next_id]
        a2 == select_first(sort_current_view(DropUnreachable(a1)))
    IN [a2 EXCEPT !.status_message = <<"Refresh complete!">>]

\* refresh adding the rescan's failures to the count the node already had
refresh_accumulating_errors(a, fs) ==
    LET path == current_path(a)
        built == scan_dir(path, a.args, fs.yielded, fs.root_mtime, fs.root_vol, a.next_id)
        new_node == built.heap[built.root]
        heap1 == [x \in DOMAIN a.heap \cup DOMAIN built.heap |->
                    IF x \in DOMAIN built.heap THEN built.heap[x] ELSE a.heap[x]]
        a1 == [a EXCEPT !.heap = [heap1 EXCEPT
                            ![a.current_node].children = new_node.children,
                            ![a.current_node].size = new_node.size,
                            ![a.current_node].error_count = @ + new_node.error_count],
                        !.next_id = built.next_id]
        a2 == select_first(sort_current_view(DropUnreachable(a1)))
    IN [a2 EXCEPT !.status_message = <<"Refresh complete!">>]

\* App::refresh, lines 227-247.  fs is what the rescan finds on disk: the
\* walker's results, in the order `yielded`, and the stat of the scanned path.
refresh(a, fs) ==
    LET path == current_path(a)
        built == scan_dir(path, a.args, fs.yielded, fs.root_mtime, fs.root_vol, a.next_id)
        new_node == built.heap[built.root]
        heap1 == [x \in DOMAIN a.heap \cup DOMAIN built.heap |->
                    IF x \in DOMAIN built.heap THEN built.heap[x] ELSE a.heap[x]]
        a1 == [a EXCEPT !.heap = [heap1 EXCEPT
                            ![a.current_node].children = new_node.children,
                            ![a.current_node].size = new_node.size,
                            ![a.current_node].error_count = new_node.error_count],
                        !.next_id = built.next_id]
        a2 == select_first(sort_current_view(DropUnreachable(a1)))
    IN [a2 EXCEPT !.status_message = <<"Refresh complete!">>]

----------------------------------------------------------------------------
(* The initial build, one loop iteration at a time *)

NoArgs == [follow_links |-> FALSE, one_file_system |-> FALSE]

\* the App before main has built it
NoApp == [heap |-> <<>>, next_id |-> 0]

\* what stat can say of an entry
ScanStats ==
    {StatFile(len, Some(MaxMTime)) : len \in 1..MaxSize}
        \cup {StatDir(Some(MaxMTime)), StatErr}

\* main, line 747: the terminal as the program finds it, scan_dir about to
\* run.  pc is the statement of main the program is at; raw and alt are the
\* terminal's modes; hook says that setup_panic_hook has run.
AtScan ==
    [pc |-> "scan_dir", raw |-> FALSE, alt |-> FALSE, hook |-> FALSE,
     res |-> "unset", hook_errs |-> {}]

\* main, line 759: run_app is running, on the terminal lines 750-756 set up
InRunApp ==
    [pc |-> "run_app", raw |-> TRUE, alt |-> TRUE, hook |-> TRUE,
     res |-> "unset", hook_errs |-> {}]

\* main, line 747: scan_dir is entered; nothing is collected yet
ScanStart(results, walk_errs, args) ==
    [pc |-> "walk", fs |-> results, walk_errs |-> walk_errs,
     pending |-> results, errs_left |-> walk_errs,
     root_path |-> <<>>, root_mtime |-> Some(MaxMTime), root_vol |-> Some(0),
     args |-> args,
     entries |-> <<>>, error_count |-> 0, sorted_entries |-> <<>>,
     heap |-> <<>>, nodes |-> <<>>, root_node |-> 0, idx |-> 0, base |-> 1]

\* a directory of three files of 10, 20 and 30 bytes and a sub-directory
\* holding one file of 100 bytes
ScenarioResults ==
    WalkResults({<<1>>, <<2>>, <<3>>, <<4>>, <<4, 1>>},
                (<<1>> :> StatFile(10, Some(MaxMTime)))
                    @@ (<<2>> :> StatFile(20, Some(MaxMTime)))
                    @@ (<<3>> :> StatFile(30, Some(MaxMTime)))
                    @@ (<<4>> :> StatDir(Some(MaxMTime)))
                    @@ (<<4, 1>> :> StatFile(100, Some(MaxMTime))))

\* what stat can say of an entry of a file system that spans volumes
VolStats == {StatFile(MaxSize, Some(MaxMTime)), StatDir(Some(MaxMTime)), StatErr}

\* what get_volume_id gives for a path: no id, or the id of one of two volumes
Vols == {None, Some(0), Some(1)}

\* The results of a walk of the paths S over volumes: vol[p] is what
\* get_volume_id gives for p, which is None exactly when fs::metadata fails
\* on p (utils.rs:41-44).
WalkResultsOn(S, stat, vol) ==
    {WalkOk(<<>>, StatDir(None), StatDir(None), Some(0))}
        \cup {WalkOk(p, IF vol[p].some THEN stat[p] ELSE StatErr, stat[p], vol[p]) :
                    p \in S}

InitScan ==
    /\ \/ \E S \in Shapes(MaxEntries) : \E stat \in [S -> ScanStats] :
            \E walk_errs \in 0..MaxWalkErrors :
                /\ WellFormed(S, stat)
                /\ scan = ScanStart(WalkResults(S, stat), walk_errs, NoArgs)
       \/ scan = ScanStart(ScenarioResults, 0, NoArgs)
       \/ \E S \in Shapes(MaxVolEntries) : \E stat \in [S -> VolStats] :
            \E vol \in [S -> Vols] : \E root_vol \in {None, Some(0)} :
                \E one_file_system \in BOOLEAN, follow_links \in BOOLEAN :
                    /\ WellFormed(S, stat)
                    /\ scan = [ScanStart(WalkResultsOn(S, stat, vol), 0,
                                         [follow_links |-> follow_links,
                                          one_file_system |-> one_file_system])
                                    EXCEPT !.root_vol = root_vol]
       \/ scan = [ScanStart({}, MaxWalkErrors, NoArgs) EXCEPT
                    !.root_mtime = None, !.root_vol = None]
    /\ app = NoApp
    /\ last_op = "none"
    /\ running = FALSE
    /\ refreshes = 0
    /\ scanned = <<>>
    /\ term = AtScan

Collected(r) ==
    LET w == walk_entry([entries |-> scan.entries, error_count |-> scan.error_count],
                        r, scan.root_path, scan.root_vol, scan.args)
    IN [scan EXCEPT !.entries = w.entries, !.error_count = w.error_count]

\* the walker yields Ok(entry), any entry it has not yielded yet
WalkYield ==
    /\ scan.pc = "walk"
    /\ \E r \in scan.pending :
        scan' = [Collected(r) EXCEPT !.pending = @ \ {r}]
    /\ UNCHANGED <<app, last_op, running, refreshes, scanned, term>>

\* the walker yields Err
WalkFail ==
    /\ scan.pc = "walk"
    /\ scan.errs_left > 0
    /\ scan' = [Collected(WalkErr) EXCEPT !.errs_left = @ - 1]
    /\ UNCHANGED <<app, last_op, running, refreshes, scanned, term>>

\* the walker is exhausted: lines 97-112
WalkEnd ==
    /\ scan.pc = "walk"
    /\ scan.pending = {} /\ scan.errs_left = 0
    /\ LET b == create_root(scan.root_path, scan.root_mtime, scan.error_count, scan.base)
       IN scan' = [scan EXCEPT !.pc = "link", !.heap = b.heap, !.nodes = b.nodes,
                               !.root_node = scan.base,
                               !.sorted_entries = sort_entries(scan.entries),
                               !.idx = 1]
    /\ UNCHANGED <<app, last_op, running, refreshes, scanned, term>>

\* the forward pass, lines 115-139
LinkStep ==
    /\ scan.pc = "link"
    /\ scan.idx <= Len(scan.sorted_entries)
    /\ LET b == link_entry([heap |-> scan.heap, nodes |-> scan.nodes],
                           scan.sorted_entries[scan.idx], scan.base + scan.idx)
       IN scan' = [scan EXCEPT !.heap = b.heap, !.nodes = b.nodes, !.idx = @ + 1]
    /\ UNCHANGED <<app, last_op, running, refreshes, scanned, term>>

LinkEnd ==
    /\ scan.pc = "link"
    /\ scan.idx > Len(scan.sorted_entries)
    /\ scan' = [scan EXCEPT !.pc = "propagate", !.idx = 1]
    /\ UNCHANGED <<app, last_op, running, refreshes, scanned, term>>

\* the reverse pass, lines 142-151
PropagateStep ==
    /\ scan.pc = "propagate"
    /\ scan.idx <= Len(scan.sorted_entries)
    /\ LET n == Len(scan.sorted_entries)
           b == propagate_entry([heap |-> scan.heap, nodes |-> scan.nodes],
                                scan.sorted_entries[rev_index(n, scan.idx)])
       IN scan' = [scan EXCEPT !.heap = b.heap, !.idx = @ + 1]
    /\ UNCHANGED <<app, last_op, running, refreshes, scanned, term>>

\* line 153
ScanReturn ==
    /\ scan.pc = "propagate"
    /\ scan.idx > Len(scan.sorted_entries)
    /\ scan' = [scan EXCEPT !.pc = "done"]
    /\ UNCHANGED <<app, last_op, running, refreshes, scanned, term>>

\* the walk result r is of another volume than the scan root, and the scan
\* is to stay on one file system
VolumeSkipped(r) ==
    /\ scan.args.one_file_system
    /\ scan.root_vol.some /\ r.vol.some
    /\ scan.root_vol.v # r.vol.v

\* lines 71-75: the stat the scan makes of the entry of walk result r
StatOf(r) == IF scan.args.follow_links THEN r.meta ELSE r.lmeta

\* the failures of the walk the build made: the enumeration errors and the
\* entries, other than the root and those skipped, whose stat failed
BuildFailures ==
    scan.walk_errs
        + Cardinality({r \in scan.fs :
                r.path # <<>> /\ ~VolumeSkipped(r) /\ ~StatOf(r).ok})

\* main, lines 750-759: the terminal set up, App::new on the returned root,
\* run_app entered
AppStart ==
    /\ scan.pc = "done"
    /\ term = AtScan
    /\ scan' = [scan EXCEPT !.pc = "returned"]
    /\ app' = AppNew([heap |-> scan.heap, root |-> scan.root_node,
                      next_id |-> scan.root_node + Len(scan.sorted_entries) + 1],
                     scan.args)
    /\ running' = TRUE
    /\ scanned' = (scan.root_node :> BuildFailures)
    /\ UNCHANGED <<last_op, refreshes>>
    /\ term' = InRunApp

\* main, lines 752-756: enable_raw_mode, EnterAlternateScreen or
\* Terminal::new fails and main returns the error; there is no App
AppStartFails ==
    /\ scan.pc = "done"
    /\ term = AtScan
    /\ \E raw, alt \in BOOLEAN :
        /\ alt => raw
        /\ term' = [AtScan EXCEPT !.pc = "returned Err", !.raw = raw,
                                   !.alt = alt, !.hook = TRUE]
    /\ UNCHANGED <<scan, app, last_op, running, refreshes, scanned>>

NextScan ==
    \/ WalkYield
    \/ WalkFail
    \/ WalkEnd
    \/ LinkStep
    \/ LinkEnd
    \/ PropagateStep
    \/ ScanReturn
    \/ AppStart
    \/ AppStartFails

SpecScan == InitScan /\ [][NextScan]_vars

----------------------------------------------------------------------------
(* run_app (main.rs, lines 539-572): one key press per step *)

\* the key presses the session is driven with: one per arm of the match, and
\* "x" for a key that no arm names
Keys == {"q", "Esc", "?", "j", "k", "Ctrl-d", "Ctrl-u", "H", "G",
         "Enter", "u", "r", "s", "m", "c", "x"}

\* arm with the guard of the first arm on Esc alone: q quits with the help
\* overlay open too
arm_q_unguarded(a, k) ==
    IF k = "q" \/ (k = "Esc" /\ ~a.show_help) THEN "quit"
    ELSE IF k = "Esc" THEN "close_help"
    ELSE IF k = "?" THEN "toggle_help"
    ELSE IF a.show_help THEN "close_help"
    ELSE IF k \in {"Down", "j"} THEN "next"
    ELSE IF k \in {"Up", "k"} THEN "previous"
    ELSE IF k \in {"Ctrl-d", "PageDown"} THEN "page_down"
    ELSE IF k \in {"Ctrl-u", "PageUp"} THEN "page_up"
    ELSE IF k \in {"H", "Home"} THEN "go_to_first"
    ELSE IF k \in {"G", "End"} THEN "go_to_last"
    ELSE IF k \in {"Enter", "Right", "l", "o"} THEN "enter_dir"
    ELSE IF k \in {"Backspace", "Left", "h", "u"} THEN "go_up"
    ELSE IF k = "r" THEN "refresh"
    ELSE IF k = "s" THEN "toggle_sort_by_size"
    ELSE IF k = "m" THEN "toggle_sort_by_mtime"
    ELSE IF k = "c" THEN "toggle_sort_by_count"
    ELSE "none"

\* arm without the arm that closes the help overlay on any key
arm_help_passthrough(a, k) ==
    IF k \in {"q", "Esc"} /\ ~a.show_help THEN "quit"
    ELSE IF k = "Esc" THEN "close_help"
    ELSE IF k = "?" THEN "toggle_help"
    ELSE IF k \in {"Down", "j"} THEN "next"
    ELSE IF k \in {"Up", "k"} THEN "previous"
    ELSE IF k \in {"Ctrl-d", "PageDown"} THEN "page_down"
    ELSE IF k \in {"Ctrl-u", "PageUp"} THEN "page_up"
    ELSE IF k \in {"H", "Home"} THEN "go_to_first"
    ELSE IF k \in {"G", "End"} THEN "go_to_last"
    ELSE IF k \in {"Enter", "Right", "l", "o"} THEN "enter_dir"
    ELSE IF k \in {"Backspace", "Left", "h", "u"} THEN "go_up"
    ELSE IF k = "r" THEN "refresh"
    ELSE IF k = "s" THEN "toggle_sort_by_size"
    ELSE IF k = "m" THEN "toggle_sort_by_mtime"
    ELSE IF k = "c" THEN "toggle_sort_by_count"
    ELSE "none"

\* the arm of the match of lines 548-568 that key k takes, first match first
arm(a, k) ==
    IF k \in {"q", "Esc"} /\ ~a.show_help THEN "quit"
    ELSE IF k = "Esc" THEN "close_help"
    ELSE IF k = "?" THEN "toggle_help"
    ELSE IF a.show_help THEN "close_help"
    ELSE IF k \in {"Down", "j"} THEN "next"
    ELSE IF k \in {"Up", "k"} THEN "previous"
    ELSE IF k \in {"Ctrl-d", "PageDown"} THEN "page_down"
    ELSE IF k \in {"Ctrl-u", "PageUp"} THEN "page_up"
    ELSE IF k \in {"H", "Home"} THEN "go_to_first"
    ELSE IF k \in {"G", "End"} THEN "go_to_last"
    ELSE IF k \in {"Enter", "Right", "l", "o"} THEN "enter_dir"
    ELSE IF k \in {"Backspace", "Left", "h", "u"} THEN "go_up"
    ELSE IF k = "r" THEN "refresh"
    ELSE IF k = "s" THEN "toggle_sort_by_size"
    ELSE IF k = "m" THEN "toggle_sort_by_mtime"
    ELSE IF k = "c" THEN "toggle_sort_by_count"
    ELSE "none"

\* what the arm does to the App; fs is what a rescan would find
run_arm(a, op, fs) ==
    CASE op = "close_help" -> [a EXCEPT !.show_help = FALSE]
      [] op = "toggle_help" -> [a EXCEPT !.show_help = ~a.show_help]
      [] op = "next" -> next(a)
      [] op = "previous" -> previous(a)
      [] op = "page_down" -> page_down(a)
      [] op = "page_up" -> page_up(a)
      [] op = "go_to_first" -> go_to_first(a)
      [] op = "go_to_last" -> go_to_last(a)
      [] op = "enter_dir" -> enter_dir(a)
      [] op = "go_up" -> go_up(a)
      [] op = "refresh" -> refresh(a, fs)
      [] op = "toggle_sort_by_size" -> toggle_sort_by_size(a)
      [] op = "toggle_sort_by_mtime" -> toggle_sort_by_mtime(a)
      [] op = "toggle_sort_by_count" -> toggle_sort_by_count(a)
      [] OTHER -> a

NoFs == [yielded |-> <<>>, root_mtime |-> None, root_vol |-> None]

\* one iteration of the loop on a press of key k: the status message is
\* cleared (line 546), then the key is matched
Press(k, fs) ==
    LET a == [app EXCEPT !.status_message = NoMessage]
        op == arm(a, k)
    IN  /\ last_op' = op
        /\ IF op = "quit"
           THEN app' = a /\ running' = FALSE
           ELSE app' = run_arm(a, op, fs) /\ running' = TRUE

\* the failures of a walk: enumeration errors, and entries other than the
\* root whose stat fails
Failures(yielded, args) ==
    Cardinality({i \in 1..Len(yielded) :
        \/ ~yielded[i].ok
        \/ /\ yielded[i].path # <<>>
           /\ ~(IF args.follow_links THEN yielded[i].meta ELSE yielded[i].lmeta).ok})

\* a key press that does not rescan
KeyPress ==
    /\ running
    /\ \E k \in Keys :
        /\ arm(app, k) # "refresh"
        /\ Press(k, NoFs)
    /\ UNCHANGED <<scan, refreshes, scanned, term>>

\* what stat can say of an entry a session shows; modified() is taken to
\* fail on files only
NavStats ==
    {StatFile(len, mt) : len \in 1..MaxSize, mt \in {None} \cup {Some(t) : t \in 1..MaxMTime}}
        \cup {StatDir(Some(t)) : t \in 1..MaxMTime}

\* what a rescan can find
RefreshStats == {StatFile(MaxSize, Some(MaxMTime)), StatDir(Some(MaxMTime))}

RescanFinds(delivered, walk_errs, root_mtime) ==
    [yielded |-> delivered \o [i \in 1..walk_errs |-> WalkErr],
     root_mtime |-> root_mtime, root_vol |-> Some(0)]

\* everything a rescan can find
RescanInputs ==
    UNION {{RescanFinds(delivered, walk_errs, root_mtime) :
                delivered \in UNION {WalkOrders(WalkResults(S, stat)) :
                    stat \in {st \in [S -> RefreshStats] : WellFormed(S, st)}},
                walk_errs \in 0..MaxWalkErrors,
                root_mtime \in {None, Some(MaxMTime)}} :
           S \in Shapes(MaxRefreshEntries)}

\* the loop is running and "r" would rescan, within the session's rescans
CanRescan ==
    /\ running
    /\ arm(app, "r") = "refresh"
    /\ refreshes < MaxRefresh

\* "r" outside the help overlay: the current directory is rescanned
KeyRefresh ==
    /\ CanRescan
    /\ \E fs \in RescanInputs :
        /\ Press("r", fs)
        /\ scanned' = [x \in DOMAIN scanned \cup {app.current_node} |->
                            IF x = app.current_node
                            THEN Failures(fs.yielded, app.args) ELSE scanned[x]]
    /\ refreshes' = refreshes + 1
    /\ UNCHANGED <<scan, term>>

\* main, lines 747-760: the tree is built, the App made of it, run_app entered
Started(yielded, root_mtime) ==
    /\ scan = [pc |-> "returned"]
    /\ app = AppNew(scan_dir(<<>>, NoArgs, yielded, root_mtime, Some(0), 1), NoArgs)
    /\ last_op = "none"
    /\ running = TRUE
    /\ refreshes = 0
    /\ scanned = (1 :> Failures(yielded, NoArgs))
    /\ term = InRunApp

\* a directory of MaxWide files, no two of the same size, of modification
\* times 0..MaxMTime
WideResults ==
    WalkResults({<<i>> : i \in 1..MaxWide},
                [p \in {<<i>> : i \in 1..MaxWide} |->
                    StatFile(p[1], Some((p[1] \div MaxSize) % (MaxMTime + 1)))])

\* The wide directory as delivered.  The walker delivers its files in the
\* order the file system lists them, which is any order; App::new sorts
\* them by size (app.rs:50-64) and no two have the same size, so every
\* order gives the list the one taken here gives.
WideDelivered == WalkOrder(WideResults)

\* the walks of a path that is not a directory that can be read: a file,
\* which the walker yields as its only entry, and a path whose read fails
RootOnlyWalks ==
    {[yielded |-> <<WalkOk(<<>>, StatFile(MaxSize, Some(MaxMTime)),
                           StatFile(MaxSize, Some(MaxMTime)), Some(0))>>,
      root_mtime |-> Some(MaxMTime)],
     [yielded |-> <<WalkErr>>, root_mtime |-> None]}

Init ==
    \/ \E S \in Shapes(MaxNavEntries) : \E stat \in [S -> NavStats] :
        /\ WellFormed(S, stat)
        /\ \E delivered \in WalkOrders(WalkResults(S, stat)) :
                Started(delivered, Some(MaxMTime))
    \/ Started(WideDelivered, Some(MaxMTime))
    \/ \E S \in Shapes(MaxFailedEntries) : \E stat \in [S -> NavStats] :
        /\ WellFormed(S, stat)
        /\ \E delivered \in WalkOrders(WalkResults(S, stat)) :
                Started(delivered \o <<WalkErr>>, Some(MaxMTime))
    \/ \E w \in RootOnlyWalks : Started(w.yielded, w.root_mtime)

Next ==
    \/ KeyPress
    \/ KeyRefresh

Spec == Init /\ [][Next]_vars

----------------------------------------------------------------------------
(* main (main.rs, lines 742-774) from scan_dir to exit, with the builds,    *)
(* the initial one and each rescan, one loop iteration at a time, and a     *)
(* panic possible at every statement                                        *)

\* main, lines 747-771: the statement that follows statement pc
MainAfter(pc) ==
    CASE pc = "scan_dir" -> "setup_panic_hook"
      [] pc = "setup_panic_hook" -> "enable_raw_mode"
      [] pc = "enable_raw_mode" -> "EnterAlternateScreen"
      [] pc = "EnterAlternateScreen" -> "Terminal::new"
      [] pc = "Terminal::new" -> "App::new"
      [] pc = "App::new" -> "run_app"
      [] pc = "run_app" -> "disable_raw_mode"
      [] pc = "disable_raw_mode" -> "LeaveAlternateScreen"
      [] pc = "LeaveAlternateScreen" -> "show_cursor"
      [] pc = "show_cursor" -> "if let Err(err) = res"
      [] pc = "if let Err(err) = res" -> "exit"

\* the statements of main that end in `?` (lines 752, 754, 756, 761,
\* 762-766, 767): on Err main returns there
Fallible ==
    {"enable_raw_mode", "EnterAlternateScreen", "Terminal::new",
     "disable_raw_mode", "LeaveAlternateScreen", "show_cursor"}

\* a call applied while the callee still runs its reverse pass
scan_returned_early(s) == s.pc \in {"propagate", "done"}

\* scan_dir has returned its tree to the caller (scanner.rs:153), which has
\* not used it yet
scan_returned(s) == s.pc = "done"

\* the tree scan_dir returned
Built ==
    [heap |-> scan.heap, root |-> scan.root_node,
     next_id |-> scan.base + Len(scan.sorted_entries) + 1]

\* App::refresh, line 228
refresh_begin(a) == [a EXCEPT !.status_message = <<"Rescanning...">>]

\* App::refresh, lines 232-246, on the tree `built` that scan_dir returned
refresh_apply(a, built) ==
    LET new_node == built.heap[built.root]
        heap1 == [x \in DOMAIN a.heap \cup DOMAIN built.heap |->
                    IF x \in DOMAIN built.heap THEN built.heap[x] ELSE a.heap[x]]
        a1 == [a EXCEPT !.heap = [heap1 EXCEPT
                            ![a.current_node].children = new_node.children,
                            ![a.current_node].size = new_node.size,
                            ![a.current_node].error_count = new_node.error_count],
                        !.next_id = built.next_id]
        a2 == select_first(sort_current_view(DropUnreachable(a1)))
    IN [a2 EXCEPT !.status_message = <<"Refresh complete!">>]

\* what a walk of this session can find: the walker's results and the number
\* of its enumeration errors
MainFinds ==
    UNION {{[results |-> WalkResults(S, stat), walk_errs |-> walk_errs] :
                stat \in {st \in [S -> RefreshStats] : WellFormed(S, st)},
                walk_errs \in 0..MaxWalkErrors} :
           S \in Shapes(MaxMainEntries)}

InitMain ==
    /\ \E fs \in MainFinds : scan = ScanStart(fs.results, fs.walk_errs, NoArgs)
    /\ app = NoApp
    /\ last_op = "none"
    /\ running = FALSE
    /\ refreshes = 0
    /\ scanned = <<>>
    /\ term = AtScan

\* line 747: scan_dir returns to main
MainScanned ==
    /\ term.pc = "scan_dir"
    /\ scan_returned(scan)
    /\ term' = [term EXCEPT !.pc = MainAfter(@)]
    /\ UNCHANGED <<scan, app, last_op, running, refreshes, scanned>>

\* line 750
SetupPanicHook ==
    /\ term.pc = "setup_panic_hook"
    /\ term' = [term EXCEPT !.hook = TRUE, !.pc = MainAfter(@)]
    /\ UNCHANGED <<scan, app, last_op, running, refreshes, scanned>>

\* line 752
EnableRawMode ==
    /\ term.pc = "enable_raw_mode"
    /\ term' = [term EXCEPT !.raw = TRUE, !.pc = MainAfter(@)]
    /\ UNCHANGED <<scan, app, last_op, running, refreshes, scanned>>

\* lines 753-754
EnterAlternateScreen ==
    /\ term.pc = "EnterAlternateScreen"
    /\ term' = [term EXCEPT !.alt = TRUE, !.pc = MainAfter(@)]
    /\ UNCHANGED <<scan, app, last_op, running, refreshes, scanned>>

\* lines 755-756
TerminalNew ==
    /\ term.pc = "Terminal::new"
    /\ term' = [term EXCEPT !.pc = MainAfter(@)]
    /\ UNCHANGED <<scan, app, last_op, running, refreshes, scanned>>

\* The call of a statement that ends in `?` fails: main returns the error,
\* with the terminal as the statements before left it.  The two execute!
\* (lines 754 and 762-766) write two commands each and can fail after the
\* first is written: the alternate screen is then entered, or left, and Err
\* returned all the same.
MainReturnsErr ==
    /\ term.pc \in Fallible
    /\ \E alt \in {term.alt,
                   CASE term.pc = "EnterAlternateScreen" -> TRUE
                     [] term.pc = "LeaveAlternateScreen" -> FALSE
                     [] OTHER -> term.alt} :
        term' = [term EXCEPT !.pc = "returned Err", !.alt = alt]
    /\ UNCHANGED <<scan, app, last_op, running, refreshes, scanned>>

\* lines 758-759: App::new on the returned root, run_app entered
MainAppNew ==
    /\ term.pc = "App::new"
    /\ scan' = [scan EXCEPT !.pc = "returned"]
    /\ app' = AppNew(Built, scan.args)
    /\ running' = TRUE
    /\ scanned' = (scan.root_node :> BuildFailures)
    /\ term' = [term EXCEPT !.pc = MainAfter(@)]
    /\ UNCHANGED <<last_op, refreshes>>

\* run_app: a key press that does not rescan
MainKey ==
    /\ term.pc = "run_app"
    /\ scan.pc = "returned"
    /\ KeyPress

\* run_app, "r" outside the help overlay: App::refresh sets the status
\* message and calls scan_dir on the current path (app.rs:228-230)
RefreshBegin ==
    /\ term.pc = "run_app"
    /\ scan.pc = "returned"
    /\ CanRescan
    /\ app' = refresh_begin([app EXCEPT !.status_message = NoMessage])
    /\ last_op' = "refresh"
    /\ \E fs \in MainFinds : \E root_mtime \in {None, Some(MaxMTime)} :
        scan' = [ScanStart(fs.results, fs.walk_errs, app.args) EXCEPT
                    !.root_path = current_path(app),
                    !.root_mtime = root_mtime,
                    !.base = app.next_id]
    /\ refreshes' = refreshes + 1
    /\ UNCHANGED <<running, scanned, term>>

\* App::refresh, lines 232-246: scan_dir has returned, its tree is put in place
RefreshApply ==
    /\ term.pc = "run_app"
    /\ running
    /\ scan_returned(scan)
    /\ scan' = [scan EXCEPT !.pc = "returned"]
    /\ app' = refresh_apply(app, Built)
    /\ scanned' = [x \in DOMAIN scanned \cup {app.current_node} |->
                        IF x = app.current_node THEN BuildFailures ELSE scanned[x]]
    /\ UNCHANGED <<last_op, running, refreshes, term>>

\* run_app returns Err: terminal.draw (line 541) or event::read (line 543)
\* failed.  main goes on to line 761 and prints the error at the end.
RunAppErr ==
    /\ term.pc = "run_app"
    /\ scan.pc = "returned"
    /\ running
    /\ running' = FALSE
    /\ term' = [term EXCEPT !.res = "Err", !.pc = MainAfter(@)]
    /\ UNCHANGED <<scan, app, last_op, refreshes, scanned>>

\* run_app returns Ok(()) on a quit key (line 549)
RunAppReturn ==
    /\ term.pc = "run_app"
    /\ ~running
    /\ term' = [term EXCEPT !.res = "Ok", !.pc = MainAfter(@)]
    /\ UNCHANGED <<scan, app, last_op, running, refreshes, scanned>>

\* line 761
DisableRawMode ==
    /\ term.pc = "disable_raw_mode"
    /\ term' = [term EXCEPT !.raw = FALSE, !.pc = MainAfter(@)]
    /\ UNCHANGED <<scan, app, last_op, running, refreshes, scanned>>

\* lines 762-766
LeaveAlternateScreen ==
    /\ term.pc = "LeaveAlternateScreen"
    /\ term' = [term EXCEPT !.alt = FALSE, !.pc = MainAfter(@)]
    /\ UNCHANGED <<scan, app, last_op, running, refreshes, scanned>>

\* line 767
ShowCursor ==
    /\ term.pc = "show_cursor"
    /\ term' = [term EXCEPT !.pc = MainAfter(@)]
    /\ UNCHANGED <<scan, app, last_op, running, refreshes, scanned>>

\* lines 769-771: the error run_app returned, if any, is printed
PrintRes ==
    /\ term.pc = "if let Err(err) = res"
    /\ term' = [term EXCEPT !.pc = MainAfter(@)]
    /\ UNCHANGED <<scan, app, last_op, running, refreshes, scanned>>

\* the statements of main a panic can come from
MainStatements ==
    {"scan_dir", "setup_panic_hook", "enable_raw_mode", "EnterAlternateScreen",
     "Terminal::new", "App::new", "run_app", "disable_raw_mode",
     "LeaveAlternateScreen", "show_cursor", "if let Err(err) = res"}

\* A panic, at any statement: the installed hook is called, which is the
\* closure of lines 734-739 once setup_panic_hook has run and the original
\* hook before.  Lines 769-771 call println! (which panics when it cannot
\* write), and nothing else, when res is Err.
Panic ==
    /\ term.pc \in MainStatements
    /\ term.pc = "if let Err(err) = res" => term.res = "Err"
    /\ term' = [term EXCEPT !.pc = IF term.hook THEN "hook: disable_raw_mode"
                                   ELSE "original_hook"]
    /\ UNCHANGED <<scan, app, last_op, running, refreshes, scanned>>

\* line 736: `let _ = disable_raw_mode();`.  The call leaves raw mode, or
\* fails and leaves the terminal as it was; the hook discards the result
\* and goes on either way.  hook_errs keeps the calls of the hook that
\* returned Err.
HookDisableRawMode ==
    /\ term.pc = "hook: disable_raw_mode"
    /\ \/ term' = [term EXCEPT !.raw = FALSE,
                                !.pc = "hook: LeaveAlternateScreen"]
       \/ term' = [term EXCEPT !.hook_errs = @ \cup {"disable_raw_mode"},
                                !.pc = "hook: LeaveAlternateScreen"]
    /\ UNCHANGED <<scan, app, last_op, running, refreshes, scanned>>

\* line 737: `let _ = execute!(io::stdout(), LeaveAlternateScreen,
\* DisableMouseCapture);`.  The call writes both commands, or fails: before
\* the first is written, or after it
HookLeaveAlternateScreen ==
    /\ term.pc = "hook: LeaveAlternateScreen"
    /\ \/ term' = [term EXCEPT !.alt = FALSE, !.pc = "original_hook"]
       \/ \E alt \in {term.alt, FALSE} :
            term' = [term EXCEPT !.alt = alt,
                                 !.hook_errs = @ \cup {"LeaveAlternateScreen"},
                                 !.pc = "original_hook"]
    /\ UNCHANGED <<scan, app, last_op, running, refreshes, scanned>>

\* line 738, or the default hook alone: the panic is reported and the
\* process ends
OriginalHook ==
    /\ term.pc = "original_hook"
    /\ term' = [term EXCEPT !.pc = "panicked"]
    /\ UNCHANGED <<scan, app, last_op, running, refreshes, scanned>>

NextMain ==
    \/ WalkYield
    \/ WalkFail
    \/ WalkEnd
    \/ LinkStep
    \/ LinkEnd
    \/ PropagateStep
    \/ ScanReturn
    \/ MainScanned
    \/ SetupPanicHook
    \/ EnableRawMode
    \/ EnterAlternateScreen
    \/ TerminalNew
    \/ MainReturnsErr
    \/ MainAppNew
    \/ MainKey
    \/ RefreshBegin
    \/ RefreshApply
    \/ RunAppErr
    \/ RunAppReturn
    \/ DisableRawMode
    \/ LeaveAlternateScreen
    \/ ShowCursor
    \/ PrintRes
    \/ Panic
    \/ HookDisableRawMode
    \/ HookLeaveAlternateScreen
    \/ OriginalHook

SpecMain == InitMain /\ [][NextMain]_vars

----------------------------------------------------------------------------
(* Claims on the tree builder, checked under SpecScan *)

ScanDone == scan.pc = "done"

\* an out-of-order delivery: the first recorded entry is not a shallowest one
DeliveredDeepFirst ==
    /\ Len(scan.entries) >= 2
    /\ \E i \in 2..Len(scan.entries) :
        Depth(scan.entries[i].path) < Depth(scan.entries[1].path)

\* C1: once scan_dir has returned, every directory node of the returned tree
\* has size equal to the sum of the size fields of its direct children,
\* whatever the order the entries were delivered in.
C1_AggregateInvariant ==
    ScanDone =>
        \A x \in Reach(scan.heap, scan.root_node) :
            scan.heap[x].is_dir => scan.heap[x].size = ChildSizes(scan.heap, x)

\* a directory below the root holding a non-empty directory, delivered deep first
C1_Witness ==
    /\ ScanDone
    /\ DeliveredDeepFirst
    /\ \E x \in Reach(scan.heap, scan.root_node) \ {scan.root_node} :
        \E i \in 1..Len(scan.heap[x].children) :
            LET c == scan.heap[x].children[i]
            IN scan.heap[c].is_dir /\ scan.heap[c].size > 0

\* C2: when every recorded entry lies in the root or in a recorded directory,
\* the root's size is the sum of the sizes of all recorded file entries and
\* every directory's size is the sum of the file entries anywhere below it.
C2_SubtreeSum ==
    (ScanDone /\ ParentClosed(scan.entries, scan.root_path)) =>
        /\ scan.heap[scan.root_node].size =
                SumSeq([i \in 1..Len(scan.entries) |->
                    IF scan.entries[i].is_dir THEN 0 ELSE scan.entries[i].size])
        /\ \A x \in DOMAIN scan.heap :
            scan.heap[x].is_dir =>
                scan.heap[x].size = FileSizesBelow(scan.entries, scan.heap[x].path)

\* files at two depths, one of them two directories down
C2_Witness ==
    /\ ScanDone
    /\ ParentClosed(scan.entries, scan.root_path)
    /\ \E i, j \in 1..Len(scan.entries) :
        /\ ~scan.entries[i].is_dir /\ Depth(scan.entries[i].path) = 3
        /\ scan.entries[i].size > 0
        /\ scan.entries[j].is_dir /\ Depth(scan.entries[j].path) = 2
    /\ scan.heap[scan.root_node].size > 0

\* C3: the build of the same results in any order gives every path the node
\* size and error_count that the build of the delivery by path gives it.
C3_OrderIndependence ==
    ScanDone =>
        LET ref == ReferenceScan.heap
        IN  /\ PathsOf(scan.heap) = PathsOf(ref)
            /\ \A x \in DOMAIN scan.heap :
                LET y == NodeAt(ref, scan.heap[x].path)
                IN  /\ scan.heap[x].size = ref[y].size
                    /\ scan.heap[x].error_count = ref[y].error_count

\* a build from a delivery that differs from the one by path, with a failure
C3_Witness ==
    /\ ScanDone
    /\ DeliveredDeepFirst
    /\ scan.heap[scan.root_node].error_count > 0
    /\ scan.heap[scan.root_node].size > 0

----------------------------------------------------------------------------
(* Claims on the navigation state machine, checked under Spec *)

Children == current_children(app)

\* the selected child of the current node exists and is a directory
SelectedIsDir(a) ==
    /\ a.selected.some
    /\ a.selected.v < Len(current_children(a))
    /\ a.heap[current_children(a)[a.selected.v + 1]].is_dir

\* the key of child x under the sort dimension `mode`, as a number that
\* orders as the comparator does (no timestamp below every timestamp)
SortKey(heap, mode, x) ==
    CASE mode = "Size" -> heap[x].size
      [] mode = "ModifiedTime" ->
            IF heap[x].modified_time.some THEN heap[x].modified_time.v + 1 ELSE 0
      [] mode = "ItemCount" -> Len(heap[x].children)

\* C4: from a state whose selected child is a directory, enter_dir followed
\* by go_up gives back the same current node and the same history, and the
\* selection is 0 whatever it was before.
C4_EnterLeaveRoundTrip ==
    SelectedIsDir(app) =>
        LET b == go_up(enter_dir(app))
        IN  /\ b.current_node = app.current_node
            /\ b.path_history = app.path_history
            /\ b.selected = Some(0)

\* a directory was entered from a selection index above 0, and leaving it
\* puts the selection at 0
C4_Witness ==
    /\ last_op = "enter_dir"
    /\ app.path_history # <<>>
    /\ LET parent == app.path_history[Len(app.path_history)]
       IN \E i \in 2..Len(app.heap[parent].children) :
            app.heap[parent].children[i] = app.current_node
    /\ go_up(app).selected = Some(0)
    /\ go_up(app).current_node = app.path_history[Len(app.path_history)]

\* the toggle of the dimension that is active in a
toggle_active(a) ==
    CASE a.sort_mode = "Size" -> toggle_sort_by_size(a)
      [] a.sort_mode = "ModifiedTime" -> toggle_sort_by_mtime(a)
      [] a.sort_mode = "ItemCount" -> toggle_sort_by_count(a)

\* C5: toggling the active sort dimension twice restores sort_ascending and
\* the exact order of the current node's children, equal keys included.
C5_SortInvolution ==
    LET b == toggle_active(toggle_active(app))
    IN  /\ b.sort_ascending = app.sort_ascending
        /\ b.sort_mode = app.sort_mode
        /\ current_children(b) = Children

\* a toggle of the active dimension was made on children of which two have
\* equal keys and a third differs, so that one toggle changes the order
C5_Witness ==
    /\ last_op \in {"toggle_sort_by_size", "toggle_sort_by_mtime", "toggle_sort_by_count"}
    /\ \E i, j \in 1..Len(Children) :
        /\ i < j
        /\ SortKey(app.heap, app.sort_mode, Children[i])
                = SortKey(app.heap, app.sort_mode, Children[j])
    /\ current_children(toggle_active(app)) # Children
    /\ current_children(toggle_active(toggle_active(app))) = Children

\* the children of a's current node are in non-increasing order of the key
Descending(a, mode) ==
    \A i \in 1..Len(current_children(a)) - 1 :
        SortKey(a.heap, mode, current_children(a)[i])
            >= SortKey(a.heap, mode, current_children(a)[i + 1])

\* the toggle of dimension `mode`
toggle_of(a, mode) ==
    CASE mode = "Size" -> toggle_sort_by_size(a)
      [] mode = "ModifiedTime" -> toggle_sort_by_mtime(a)
      [] mode = "ItemCount" -> toggle_sort_by_count(a)

\* C6: toggling a dimension other than the active one sets sort_mode to it
\* and sort_ascending to false, whatever it was, and leaves the children in
\* descending order of that dimension's key.
C6_SortSwitchDefault ==
    \A mode \in SortModes \ {app.sort_mode} :
        LET b == toggle_of(app, mode)
        IN  /\ b.sort_mode = mode
            /\ b.sort_ascending = FALSE
            /\ Descending(b, mode)
            /\ Range(current_children(b)) = Range(Children)

\* the view is ascending by size, and switching to the modification time
\* reorders it
C6_Witness ==
    /\ last_op = "toggle_sort_by_size"
    /\ app.sort_mode = "Size" /\ app.sort_ascending
    /\ LET b == toggle_sort_by_mtime(app)
       IN   /\ current_children(b) # Children
            /\ b.sort_mode = "ModifiedTime" /\ ~b.sort_ascending
            /\ b.status_message = <<"Sort: ", "mtime", " ", "desc">>

\* C7: with len > 0 children and selection i, page_down selects
\* min(i + 10, len - 1) and page_up selects max(i - 10, 0), both in [0, len-1].
C7_PageClamp ==
    (Children # <<>> /\ app.selected.some) =>
        LET len == Len(Children)
            i == app.selected.v
            down == page_down(app).selected
            up == page_up(app).selected
        IN  /\ down = Some(IF i + 10 <= len - 1 THEN i + 10 ELSE len - 1)
            /\ up = Some(IF i - 10 >= 0 THEN i - 10 ELSE 0)
            /\ down.v \in 0..(len - 1)
            /\ up.v \in 0..(len - 1)

\* page_down moved the selection a whole page, short of the last child
C7_Witness ==
    /\ last_op = "page_down"
    /\ app.selected = Some(10)
    /\ Len(Children) > 11
    /\ page_down(app).selected = Some(Len(Children) - 1)
    /\ page_up(app).selected = Some(0)

\* C8: when the current node has no children the selection is absent and
\* next, previous, page_down, page_up, go_to_first and go_to_last change
\* nothing at all.
C8_EmptyNoOp ==
    Children = <<>> =>
        /\ app.selected = None
        /\ next(app) = app
        /\ previous(app) = app
        /\ page_down(app) = app
        /\ page_up(app) = app
        /\ go_to_first(app) = app
        /\ go_to_last(app) = app

\* a move was made in a directory without children
C8_Witness ==
    /\ last_op \in {"next", "previous", "page_down", "page_up", "go_to_first", "go_to_last"}
    /\ Children = <<>>
    /\ app.selected = None

\* the build a rescan of a's current directory makes of what fs holds
FreshBuild(a, fs) ==
    scan_dir(current_path(a), a.args, fs.yielded, fs.root_mtime, fs.root_vol, a.next_id)

\* C9: after refresh the children of the current node are exactly the
\* children of a fresh build rooted at its path, the previous child objects
\* are gone, its size is the sum of the new children's sizes, its error_count
\* is the fresh scan's failure count, and the selection is 0 if there are
\* children and absent otherwise.
C9_RefreshRebuilds ==
    CanRescan =>
        \A fs \in RescanInputs :
            LET b == refresh(app, fs)
                built == FreshBuild(app, fs)
                fresh == built.heap[built.root]
                cur == app.current_node
            IN  /\ Range(b.heap[cur].children) = Range(fresh.children)
                /\ Len(b.heap[cur].children) = Len(fresh.children)
                /\ \A c \in Reach(built.heap, built.root) \ {built.root} :
                    c \in DOMAIN b.heap /\ b.heap[c] = built.heap[c]
                /\ Range(fresh.children) \cap DOMAIN app.heap = {}
                /\ \A old \in Range(Children) : old \notin DOMAIN b.heap
                /\ b.heap[cur].size = ChildSizes(b.heap, cur)
                /\ b.heap[cur].error_count = Failures(fs.yielded, app.args)
                /\ b.selected = IF fresh.children = <<>> THEN None ELSE Some(0)

\* a directory below the root was rescanned: it has two new children, and
\* the walk had a failure
C9_Witness ==
    /\ last_op = "refresh"
    /\ app.status_message = <<"Refresh complete!">>
    /\ app.path_history # <<>>
    /\ Len(Children) = 2
    /\ app.heap[app.current_node].error_count > 0
    /\ app.heap[app.current_node].size > 0
    /\ app.selected = Some(0)

\* C10: refresh keeps the current node's identity, the history stack, the
\* sort settings and the current node's name, path, is_dir and
\* modified_time; every handle of the history still designates the same
\* live ancestor, the next handle (or the current node) among its children.
C10_RefreshFrame ==
    CanRescan =>
        \A fs \in RescanInputs :
            LET b == refresh(app, fs)
                cur == app.current_node
                h == app.path_history
            IN  /\ b.current_node = cur
                /\ b.path_history = h
                /\ b.sort_mode = app.sort_mode
                /\ b.sort_ascending = app.sort_ascending
                /\ b.heap[cur].name = app.heap[cur].name
                /\ b.heap[cur].path = app.heap[cur].path
                /\ b.heap[cur].is_dir = app.heap[cur].is_dir
                /\ b.heap[cur].modified_time = app.heap[cur].modified_time
                /\ \A i \in 1..Len(h) :
                    /\ h[i] \in DOMAIN b.heap
                    /\ b.heap[h[i]].path = app.heap[h[i]].path
                    /\ (IF i < Len(h) THEN h[i + 1] ELSE cur)
                            \in Range(b.heap[h[i]].children)

\* a directory two levels down was rescanned while the view was sorted
\* ascending by a key other than the size
C10_Witness ==
    /\ last_op = "refresh"
    /\ Len(app.path_history) = 2
    /\ app.sort_mode # "Size" /\ app.sort_ascending
    /\ Children # <<>>
    /\ app.heap[app.current_node].modified_time.some

\* the loop is running and "r" would rescan
RescanPossible ==
    /\ running
    /\ arm(app, "r") = "refresh"

\* the directory the current one was entered from
ParentOf(a) == a.path_history[Len(a.path_history)]

\* node x of a's heap has the size of its children
Aggregates(a, x) == a.heap[x].size = ChildSizes(a.heap, x)

\* C11 (amended): refresh on a non-root directory leaves the size of every
\* node of the history stack unchanged; when the parent's size equalled the
\* sum of its children's sizes before the refresh and the refreshed
\* directory's size changed, the parent's size no longer equals that sum, and
\* this stays so after go_up.  Stated of the rescans that can follow a state
\* no rescan led to, or a state a rescan has just led to.
C11_RefreshStaleAncestors ==
    (RescanPossible /\ app.path_history # <<>>
        /\ (refreshes = 0 \/ last_op = "refresh")) =>
        \A fs \in RescanInputs :
            LET b == refresh(app, fs)
                cur == app.current_node
                p == ParentOf(app)
                u == go_up(b)
            IN  /\ \A i \in 1..Len(app.path_history) :
                    b.heap[app.path_history[i]].size = app.heap[app.path_history[i]].size
                /\ (Aggregates(app, p) /\ b.heap[cur].size # app.heap[cur].size) =>
                        /\ ~Aggregates(b, p)
                        /\ u.current_node = p
                        /\ u.heap[p].size # current_total_size(u)

\* C11 as stated: whenever the refreshed directory's size changed, the
\* parent's size no longer equals the sum of its children's sizes.
C11_Original ==
    (RescanPossible /\ app.path_history # <<>>) =>
        \A fs \in RescanInputs :
            LET b == refresh(app, fs)
                cur == app.current_node
            IN  b.heap[cur].size # app.heap[cur].size => ~Aggregates(b, ParentOf(app))

\* a directory below the root was rescanned and left: the directory now
\* shown has a size that is not the sum of its children's sizes
C11_Witness ==
    /\ last_op = "go_up"
    /\ refreshes > 0
    /\ Children # <<>>
    /\ app.heap[app.current_node].size # current_total_size(app)

\* the operations of the navigation arms of run_app
NavOps == {"next", "previous", "page_down", "page_up", "go_to_first",
           "go_to_last", "enter_dir", "go_up", "refresh",
           "toggle_sort_by_size", "toggle_sort_by_mtime", "toggle_sort_by_count"}

\* x - y on usize panics when y > x
SubUnderflows(x, y) == x < y

\* sort_current_view holds the current node mutably borrowed while the
\* comparator borrows two children (app.rs:53-56): already borrowed if a
\* child is the current node itself
sort_faults(a) ==
    /\ Len(current_children(a)) >= 2
    /\ a.current_node \in Range(current_children(a))

\* the handler of op, run in state a, hits a panic: a usize subtraction below
\* zero, or a borrow of a node that is mutably borrowed.  b is the state the
\* handler leaves; sorting does not change which nodes the children are.
handler_faults(a, op, b) ==
    LET children == current_children(a)
        i == a.selected.v
    IN CASE op = "next" ->
              a.selected.some /\ children # <<>> /\ SubUnderflows(Len(children), 1)
         [] op = "previous" ->
              /\ a.selected.some
              /\ \/ i = 0 /\ children # <<>> /\ SubUnderflows(Len(children), 1)
                 \/ i # 0 /\ SubUnderflows(i, 1)
         [] op = "page_down" ->
              children # <<>> /\ a.selected.some /\ SubUnderflows(Len(children), 1)
         [] op = "go_to_last" ->
              children # <<>> /\ SubUnderflows(Len(children), 1)
         [] op = "enter_dir" -> SelectedIsDir(a) /\ sort_faults(b)
         [] op = "go_up" -> a.path_history # <<>> /\ sort_faults(b)
         [] op = "refresh" -> sort_faults(b)
         [] op \in {"toggle_sort_by_size", "toggle_sort_by_mtime",
                    "toggle_sort_by_count"} -> sort_faults(b)
         [] OTHER -> FALSE

\* every handle of a designates a live node and the selection, if any, is an
\* index of the list shown
Sound(a) ==
    /\ {a.root, a.current_node} \cup Range(a.path_history) \subseteq DOMAIN a.heap
    /\ \A x \in DOMAIN a.heap : Range(a.heap[x].children) \subseteq DOMAIN a.heap
    /\ a.selected.some => a.selected.v < Len(current_children(a))

\* C12: in every reachable state every navigation operation has its key
\* (outside the help overlay), and its handler runs to its end: no usize
\* subtraction goes below zero, no node is borrowed while mutably borrowed,
\* and the state it leaves has live handles and a selection that is absent
\* or an index of the children shown; so too where the current directory is
\* empty or nothing is selected.
C12_NavigationTotal ==
    /\ (running /\ ~app.show_help) =>
            \A op \in NavOps : \E k \in Keys : arm(app, k) = op
    /\ \A op \in NavOps \ {"refresh"} :
            LET b == run_arm(app, op, NoFs)
            IN ~handler_faults(app, op, b) /\ Sound(b)
    /\ CanRescan =>
            \A fs \in RescanInputs :
                LET b == refresh(app, fs)
                IN ~handler_faults(app, "refresh", b) /\ Sound(b)

\* a key was handled in an empty directory below the root, with no selection
C12_Witness ==
    /\ last_op \in {"next", "previous", "page_down", "page_up", "go_to_last",
                    "toggle_sort_by_count"}
    /\ app.path_history # <<>>
    /\ Children = <<>>
    /\ app.selected = None

\* the child of a's current node that is selected
SelectedChild(a) == current_children(a)[a.selected.v + 1]

\* C13: enter_dir with selection i, child i of current being a directory,
\* pushes the old current onto the history (which grows by exactly one),
\* makes that child current, leaves sort_mode and sort_ascending unchanged,
\* and sets the selection to 0 if the child has children, otherwise to absent.
C13_EnterDirectory ==
    SelectedIsDir(app) =>
        LET b == enter_dir(app)
            child == SelectedChild(app)
        IN  /\ b.path_history = Append(app.path_history, app.current_node)
            /\ Len(b.path_history) = Len(app.path_history) + 1
            /\ b.current_node = child
            /\ b.sort_mode = app.sort_mode
            /\ b.sort_ascending = app.sort_ascending
            /\ b.selected = IF app.heap[child].children = <<>> THEN None ELSE Some(0)

\* a directory with children, listed second or later, was entered under an
\* ascending sort
C13_Witness ==
    /\ last_op = "enter_dir"
    /\ Len(app.path_history) = 1
    /\ \E i \in 2..Len(app.heap[ParentOf(app)].children) :
            app.heap[ParentOf(app)].children[i] = app.current_node
    /\ app.sort_ascending
    /\ Children # <<>>
    /\ app.selected = Some(0)

\* the selected child of the current node exists and is a file
SelectedIsFile(a) ==
    /\ a.selected.some
    /\ a.selected.v < Len(current_children(a))
    /\ ~a.heap[SelectedChild(a)].is_dir

\* C14: enter_dir when the selection is absent or the selected child is a
\* file leaves the whole state unchanged: current, history, selection, sort
\* settings and the order of the children of current.
C14_EnterNoOp ==
    (app.selected = None \/ SelectedIsFile(app)) =>
        LET b == enter_dir(app)
        IN  /\ b.current_node = app.current_node
            /\ b.path_history = app.path_history
            /\ b.selected = app.selected
            /\ b.sort_mode = app.sort_mode
            /\ b.sort_ascending = app.sort_ascending
            /\ current_children(b) = current_children(app)
            /\ b = app

\* Enter was pressed on a file listed second or later (entering a directory
\* would have put the selection at 0 or made it absent)
C14_Witness ==
    /\ last_op = "enter_dir"
    /\ SelectedIsFile(app)
    /\ app.selected.v >= 1

\* C15: go_up with an empty history leaves the whole state unchanged, the
\* selection index included; go_up with a non-empty history pops exactly the
\* top handle into current and sets the selection to 0 if that node has
\* children, otherwise to absent.
C15_GoUp ==
    LET b == go_up(app)
        h == app.path_history
    IN  IF h = <<>>
        THEN b = app
        ELSE /\ b.current_node = h[Len(h)]
             /\ b.path_history = SubSeq(h, 1, Len(h) - 1)
             /\ b.selected = IF app.heap[h[Len(h)]].children = <<>>
                             THEN None ELSE Some(0)

\* a directory two levels below the root was left for its parent
C15_Witness ==
    /\ last_op = "go_up"
    /\ Len(app.path_history) = 1
    /\ app.selected = Some(0)
    /\ \E c \in Range(Children) : app.heap[c].is_dir /\ app.heap[c].children # <<>>

\* C16: with len > 0 children and selection i, next selects (i + 1) mod len
\* and previous (i - 1) mod len, so next from the last index gives 0,
\* previous from 0 gives len - 1, and previous undoes next.
C16_MoveWraps ==
    (Children # <<>> /\ app.selected.some) =>
        LET len == Len(Children)
            i == app.selected.v
        IN  /\ next(app) = [app EXCEPT !.selected = Some((i + 1) % len)]
            /\ previous(app) = [app EXCEPT !.selected = Some((i + len - 1) % len)]
            /\ i = len - 1 => next(app).selected = Some(0)
            /\ i = 0 => previous(app).selected = Some(len - 1)
            /\ previous(next(app)) = app

\* previous was pressed at index 0 of the wide directory: the last index
C16_Witness ==
    /\ last_op = "previous"
    /\ Len(Children) = MaxWide
    /\ app.selected = Some(MaxWide - 1)

----------------------------------------------------------------------------
(* Claims on the start of a session, checked under SpecScan *)

\* main has built the tree and made the App of it
AppStarted == scan.pc = "returned"

\* the sizes of the children of node x, in the order of the list
SizesOf(heap, x) == [i \in 1..Len(heap[x].children) |-> heap[heap[x].children[i]].size]

\* C17: App::new gives current = root, an empty history, sort_mode = Size,
\* sort_ascending = false, the root's children ordered by size descending,
\* and selection 0 if the root has children, otherwise absent.
C17_InitialState ==
    AppStarted =>
        LET sizes == SizesOf(app.heap, app.root)
        IN  /\ app.root = scan.root_node
            /\ app.current_node = app.root
            /\ app.path_history = <<>>
            /\ app.sort_mode = "Size"
            /\ ~app.sort_ascending
            /\ Range(Children) = Range(scan.heap[scan.root_node].children)
            /\ Len(Children) = Len(scan.heap[scan.root_node].children)
            /\ \A i, j \in 1..Len(sizes) : i < j => sizes[i] >= sizes[j]
            /\ app.selected = IF Children = <<>> THEN None ELSE Some(0)

\* the build left the root's children smallest first, and App::new put the
\* largest first
C17_Witness ==
    /\ AppStarted
    /\ Len(Children) >= 2
    /\ LET built == SizesOf(scan.heap, scan.root_node)
       IN built[1] < built[Len(built)]
    /\ app.selected = Some(0)

\* C18: for a root holding files of 10, 20 and 30 bytes and a sub-directory
\* holding one file of 100 bytes, the build gives the sub-directory size 100
\* and the root size 160, and the initial sort lists the root's children as
\* the directory (100), then 30, 20, 10, whatever the order the five entries
\* were yielded in.
C18_Scenario ==
    (AppStarted /\ scan.fs = ScenarioResults) =>
        /\ app.heap[NodeAt(app.heap, <<4>>)].size = 100
        /\ app.heap[NodeAt(app.heap, <<4>>)].is_dir
        /\ app.heap[app.root].size = 160
        /\ SizesOf(app.heap, app.root) = <<100, 30, 20, 10>>
        /\ Children[1] = NodeAt(app.heap, <<4>>)

\* the scenario, its 100-byte file yielded before the directory holding it
C18_Witness ==
    /\ AppStarted
    /\ scan.fs = ScenarioResults
    /\ \E i, j \in 1..Len(scan.entries) :
        i < j /\ scan.entries[i].path = <<4, 1>> /\ scan.entries[j].path = <<4>>

\* the paths of the entries, other than the scan root and the entries
\* skipped, whose stat succeeded
StatOkPaths ==
    {r.path : r \in {q \in scan.fs : q.path # <<>> /\ ~VolumeSkipped(q) /\ StatOf(q).ok}}

\* C19: whatever the walker yields and in whatever order, scan_dir runs to
\* its end, the returned root's error_count is the number of enumeration
\* errors plus the number of entries, other than the skipped root, whose stat
\* failed, and every such entry whose stat succeeded is recorded, be it
\* yielded before or after a failure.
C19_FailuresCounted ==
    /\ scan.pc \in {"walk", "link", "propagate"} => ENABLED NextScan
    /\ ScanDone =>
        /\ scan.heap[scan.root_node].error_count = BuildFailures
        /\ {scan.entries[i].path : i \in 1..Len(scan.entries)} = StatOkPaths
        /\ Len(scan.entries) = Cardinality(StatOkPaths)

\* a build whose walk had an enumeration error and an entry whose stat
\* failed, and recorded two entries
C19_Witness ==
    /\ ScanDone
    /\ scan.walk_errs = 1
    /\ scan.heap[scan.root_node].error_count = 2
    /\ Len(scan.entries) = 2

----------------------------------------------------------------------------
(* Claims on the session's error counts, checked under Spec *)

\* C20: in every reachable state a node's error_count is non-zero only if a
\* scan was rooted at that node (the initial build, or a refresh while it was
\* current), it is the failure count of the most recent such scan, and a
\* refresh changes the error_count of no node but the current one.
C20_OwnScanErrors ==
    /\ \A x \in DOMAIN app.heap :
            app.heap[x].error_count = IF x \in DOMAIN scanned THEN scanned[x] ELSE 0
    /\ CanRescan =>
            \A fs \in RescanInputs :
                LET b == refresh(app, fs)
                IN \A x \in DOMAIN b.heap \ {app.current_node} :
                        b.heap[x].error_count =
                            IF x \in DOMAIN app.heap THEN app.heap[x].error_count ELSE 0

\* the initial build had a failure, and a directory below the root was
\* rescanned with a failure of its own
C20_Witness ==
    /\ last_op = "refresh"
    /\ app.path_history # <<>>
    /\ app.heap[app.root].error_count > 0
    /\ app.heap[app.current_node].error_count > 0
    /\ \E c \in Range(Children) : app.heap[c].error_count = 0

----------------------------------------------------------------------------
(* Claims on the event loop, checked under Spec *)

\* C21 (amended): pressing q or Esc while the help overlay is closed ends the
\* session; while the overlay is open either of them closes the overlay
\* instead of quitting; no other key ends the session.
C21_QuitKeys ==
    /\ running =>
        /\ \A k \in Keys :
            (arm(app, k) = "quit") = (k \in {"q", "Esc"} /\ ~app.show_help)
        /\ app.show_help =>
            /\ arm(app, "q") = "close_help"
            /\ arm(app, "Esc") = "close_help"
    /\ ~running => (last_op = "quit" /\ ~app.show_help)

\* C21 as stated: q ends the session whatever the overlay, Esc ends it
\* unless the overlay is open.
C21_Original ==
    running =>
        /\ arm(app, "q") = "quit"
        /\ (arm(app, "Esc") = "quit") = ~app.show_help

\* the session was ended from a directory below the root
C21_Witness ==
    /\ ~running
    /\ last_op = "quit"
    /\ app.path_history # <<>>

----------------------------------------------------------------------------
(* Invariants of the navigation state, checked under Spec *)

\* child x of the current node has a modification time
HasMTime(x) == app.heap[x].modified_time.some

\* C23: under ModifiedTime sorting a child with no timestamp is placed
\* before every child that has one when ascending, and after every one of
\* them when descending.
C23_NoTimestampLowest ==
    app.sort_mode = "ModifiedTime" =>
        \A i, j \in 1..Len(Children) :
            (~HasMTime(Children[i]) /\ HasMTime(Children[j])) =>
                IF app.sort_ascending THEN i < j ELSE j < i

\* the view was sorted by time, ascending: a child without a timestamp is
\* first though it is the larger one, a child with one is second
C23_Witness ==
    /\ last_op = "toggle_sort_by_mtime"
    /\ app.sort_mode = "ModifiedTime" /\ app.sort_ascending
    /\ Len(Children) = 2
    /\ ~HasMTime(Children[1]) /\ HasMTime(Children[2])
    /\ app.heap[Children[1]].size > app.heap[Children[2]].size

\* C26: the history stack is the path from the root to the parent of
\* current: it is empty iff current is the root, its first handle is the
\* root, each next handle is among the children of the one before, current
\* is among the children of the last; and every handle designates a node
\* that is still in the tree.
C26_HistoryIsPath ==
    LET h == app.path_history
    IN  /\ (h = <<>>) = (app.current_node = app.root)
        /\ h # <<>> => h[1] = app.root
        /\ \A k \in 1..Len(h) - 1 : h[k + 1] \in Range(app.heap[h[k]].children)
        /\ h # <<>> => app.current_node \in Range(app.heap[h[Len(h)]].children)
        /\ Range(h) \cup {app.current_node} \subseteq Reach(app.heap, app.root)

\* a directory two levels below the root was rescanned
C26_Witness ==
    /\ last_op = "refresh"
    /\ Len(app.path_history) = 2
    /\ Children # <<>>

\* C27: the selection is absent exactly when current has no children, and is
\* otherwise an index i with 0 <= i < the number of children of current.
C27_SelectionInRange ==
    IF Children = <<>>
    THEN app.selected = None
    ELSE /\ app.selected.some
         /\ 0 <= app.selected.v
         /\ app.selected.v < Len(Children)

\* an empty directory two levels below the root was rescanned and now has
\* two children: the selection went from absent to 0
C27_Witness ==
    /\ last_op = "refresh"
    /\ Len(app.path_history) = 2
    /\ Len(Children) = 2
    /\ app.selected = Some(0)
    /\ refreshes = 1

\* C28: the children of current are ordered by the active sort: the keys
\* never decrease along the list when ascending and never increase when
\* descending, also after a child of current was refreshed and left with
\* go_up.
C28_ViewSorted ==
    \A i, j \in 1..Len(Children) :
        i < j =>
            LET ki == SortKey(app.heap, app.sort_mode, Children[i])
                kj == SortKey(app.heap, app.sort_mode, Children[j])
            IN IF app.sort_ascending THEN ki <= kj ELSE ki >= kj

\* a child was rescanned and left: it came back larger than its sibling and
\* is listed first, and is a directory with children
C28_Witness ==
    /\ last_op = "go_up"
    /\ refreshes > 0
    /\ app.sort_mode = "Size" /\ ~app.sort_ascending
    /\ Len(Children) = 2
    /\ app.heap[Children[1]].children # <<>>
    /\ app.heap[Children[1]].size > app.heap[Children[2]].size
    /\ app.heap[app.current_node].size # current_total_size(app)
    /\ ~app.heap[Children[2]].is_dir

----------------------------------------------------------------------------
(* Claims on the walker loop and the two passes, checked under SpecScan *)

\* the walk result r, taken next, is recorded or counted as a failure
RecordedOrCounted(r) ==
    LET w == Collected(r)
    IN  \/ Len(w.entries) = Len(scan.entries) + 1 /\ w.error_count = scan.error_count
        \/ w.entries = scan.entries /\ w.error_count = scan.error_count + 1

\* the walk result r, taken next, is neither recorded nor counted
PassedOver(r) ==
    LET w == Collected(r)
    IN w.entries = scan.entries /\ w.error_count = scan.error_count

\* C24: with one_file_system on, an entry is skipped (neither recorded nor
\* counted as a failure) exactly when the volume ids of the root and of the
\* entry are both known and differ; an entry for which either id is unknown
\* is not skipped; with one_file_system off no entry is skipped for its
\* volume.
C24_VolumeSkip ==
    scan.pc = "walk" =>
        \A r \in {q \in scan.pending : q.path # <<>>} :
            /\ scan.args.one_file_system =>
                PassedOver(r) =
                    (scan.root_vol.some /\ r.vol.some /\ scan.root_vol.v # r.vol.v)
            /\ (scan.args.one_file_system /\ (~scan.root_vol.some \/ ~r.vol.some)) =>
                RecordedOrCounted(r)
            /\ ~scan.args.one_file_system => RecordedOrCounted(r)

\* a build that stayed on one file system has returned: it left out an
\* entry of another volume and recorded one whose volume is not known
C24_Witness ==
    /\ ScanDone
    /\ scan.args.one_file_system
    /\ \E r, q \in scan.fs :
        /\ scan.root_vol = Some(0) /\ r.vol = Some(1)
        /\ r.path # <<>>
        /\ \A i \in 1..Len(scan.entries) : scan.entries[i].path # r.path
        /\ q.vol = None
        /\ \E i \in 1..Len(scan.entries) : scan.entries[i].path = q.path
    /\ scan.heap[scan.root_node].error_count = 0

\* the entry the forward pass processes next
LinkedNext == scan.sorted_entries[scan.idx]

\* the parent of path p is the scan root or a recorded entry
ParentRecorded(p) ==
    /\ HasParent(p)
    /\ \/ Parent(p) = scan.root_path
       \/ \E j \in 1..Len(scan.sorted_entries) : scan.sorted_entries[j].path = Parent(p)

\* the number of times node id x is among the children of node y
TimesChildOf(x, y) ==
    Cardinality({k \in 1..Len(scan.heap[y].children) : scan.heap[y].children[k] = x})

\* C29: in the forward pass, when an entry whose parent path is the root or
\* a recorded entry is processed, its parent is already in the lookup table,
\* whatever order the walker delivered the entries in; and every such entry
\* already processed is among the children of its parent's node, once, and
\* of no other node.
C29_ParentFirst ==
    scan.pc = "link" =>
        /\ scan.idx <= Len(scan.sorted_entries) =>
            (ParentRecorded(LinkedNext.path) =>
                Parent(LinkedNext.path) \in DOMAIN scan.nodes)
        /\ \A j \in 1..(scan.idx - 1) :
            LET e == scan.sorted_entries[j]
            IN ParentRecorded(e.path) =>
                /\ e.path \in DOMAIN scan.nodes
                /\ Parent(e.path) \in DOMAIN scan.nodes
                /\ \A y \in DOMAIN scan.heap :
                    TimesChildOf(scan.nodes[e.path], y) =
                        IF y = scan.nodes[Parent(e.path)] THEN 1 ELSE 0

\* the forward pass is at an entry three levels down that the walker
\* delivered before a shallower one, and its parent directory has a node
C29_Witness ==
    /\ scan.pc = "link"
    /\ scan.idx <= Len(scan.sorted_entries)
    /\ DeliveredDeepFirst
    /\ Depth(scan.entries[1].path) = MaxDepth
    /\ LinkedNext.path = scan.entries[1].path
    /\ Parent(LinkedNext.path) \in DOMAIN scan.nodes
    /\ scan.heap[scan.nodes[Parent(LinkedNext.path)]].is_dir

\* lines 142-151: the iterations from the k-th on of the reverse pass over
\* `sorted`, run on the build b
RestOfReversePass(b, sorted, k) ==
    LET n == Len(sorted)
        run[i \in (k - 1)..n] ==
            IF i = k - 1 THEN b
            ELSE LET prev == run[i - 1]
                 IN propagate_entry(prev, sorted[rev_index(n, i)])
    IN run[n]

\* the entry the reverse pass visits next
PropagatedNext == scan.sorted_entries[rev_index(Len(scan.sorted_entries), scan.idx)]

\* the reverse pass is about to add a directory's size to its parent's
Contributes ==
    /\ scan.pc = "propagate"
    /\ scan.idx <= Len(scan.sorted_entries)
    /\ PropagatedNext.is_dir
    /\ PropagatedNext.path \in DOMAIN scan.nodes
    /\ HasParent(PropagatedNext.path)
    /\ Parent(PropagatedNext.path) \in DOMAIN scan.nodes

\* C30: in the reverse pass, when a directory's size is added to its
\* parent's, that size is final: the rest of the pass leaves it as it is.
\* The step adds it to the parent's size and changes no other node, and no
\* other iteration of the pass visits the directory.
C30_FinalBeforeContributing ==
    Contributes =>
        LET e == PropagatedNext
            n == Len(scan.sorted_entries)
            cur == [heap |-> scan.heap, nodes |-> scan.nodes]
            after == propagate_entry(cur, e)
            final == RestOfReversePass(cur, scan.sorted_entries, scan.idx)
            d == scan.nodes[e.path]
            p == scan.nodes[Parent(e.path)]
        IN  /\ final.heap[d].size = scan.heap[d].size
            /\ after.heap[p].size = scan.heap[p].size + scan.heap[d].size
            /\ \A x \in DOMAIN scan.heap \ {p} : after.heap[x] = scan.heap[x]
            /\ \A j \in (1..n) \ {scan.idx} :
                scan.sorted_entries[rev_index(n, j)].path # e.path

\* the reverse pass is at a directory below another directory, holding a
\* file, delivered after that file
C30_Witness ==
    /\ Contributes
    /\ DeliveredDeepFirst
    /\ Depth(PropagatedNext.path) = 2
    /\ scan.heap[scan.nodes[PropagatedNext.path]].size > 0
    /\ scan.heap[scan.nodes[Parent(PropagatedNext.path)]].size = 0

----------------------------------------------------------------------------
(* Claims on main as a whole, checked under SpecMain *)

\* scan_dir is running: it has been called and has not returned
InFlight == scan.pc \in {"walk", "link", "propagate"}

\* C22: in the initial scan and in every rescan, no node exists while the
\* walker is being enumerated; as long as scan_dir has not returned, the
\* App is not touched and holds no node of the tree being built; and the
\* App's nodes change during a rescan only in the step that puts the
\* complete returned tree in place.
C22_NoPartialResults ==
    [][ /\ scan'.pc = "walk" => scan'.heap = <<>> /\ scan'.nodes = <<>>
        /\ InFlight => app' = app
        /\ InFlight' => DOMAIN app'.heap \cap DOMAIN scan'.heap = {}
        /\ (scan.pc # "returned" /\ app'.heap # app.heap) =>
                /\ scan.pc = "done" /\ scan'.pc = "returned"
                /\ scan.idx > Len(scan.sorted_entries)
      ]_vars

\* a rescan is in its reverse pass on a tree of three nodes, while the App
\* shows "Rescanning..." over the tree it had
C22_Witness ==
    /\ scan.pc = "propagate"
    /\ refreshes = 1
    /\ Cardinality(DOMAIN scan.heap) = 1 + MaxMainEntries
    /\ app # NoApp
    /\ app.status_message = <<"Rescanning...">>
    /\ Len(current_children(app)) = 1
    /\ DOMAIN app.heap \cap DOMAIN scan.heap = {}

\* C25: when the original panic hook runs, and after it, the terminal is
\* neither in raw mode nor in the alternate screen, whichever statement of
\* main panicked.  The hook discards the results of its two restoring calls
\* (main.rs:736-737): when one of them returns Err the terminal stays in
\* that mode and the original hook runs all the same.
C25_PanicRestoresTerminal ==
    term.pc \in {"original_hook", "panicked"} => ~term.raw /\ ~term.alt

----------------------------------------------------------------------------
(* Invariants of the tree the session holds, checked under Spec *)

\* the nodes below node x: its children and theirs, and so on
Descendants(heap, x) ==
    UNION {Reach(heap, heap[x].children[i]) : i \in 1..Len(heap[x].children)}

\* the number of places node x has in the children lists of the heap
Places(heap, x) ==
    Cardinality({yk \in UNION {{<<y, k>> : k \in 1..Len(heap[y].children)} :
                                    y \in DOMAIN heap} :
        heap[yk[1]].children[yk[2]] = x})

\* C31: in every state of a session, after the build and after any
\* navigation, sort and rescan, the children relation is a tree rooted at
\* the root: every node the App holds is reached from the root, no node is
\* among its own descendants, and every node has at most one place in the
\* children lists, the root none.
C31_ChildrenFormTree ==
    /\ DOMAIN app.heap = Reach(app.heap, app.root)
    /\ \A x \in DOMAIN app.heap :
        /\ x \notin Descendants(app.heap, x)
        /\ Places(app.heap, x) = IF x = app.root THEN 0 ELSE 1

\* a sub-directory has been rescanned and shows what the rescan found
C31_Witness ==
    /\ last_op = "refresh"
    /\ app.path_history # <<>>
    /\ Len(current_children(app)) = MaxRefreshEntries
    /\ Places(app.heap, app.current_node) = 1

\* C32: the node scan_dir returns is a directory node, whatever the stat of
\* the scanned path says and whether or not it can be read, in the initial
\* build and in every rescan; and in every state of a session the current
\* node, like every node of the history, is a directory node.
C32_CurrentIsDirectory ==
    /\ app.heap[app.root].is_dir
    /\ app.heap[app.current_node].is_dir
    /\ \A i \in 1..Len(app.path_history) : app.heap[app.path_history[i]].is_dir
    /\ (CanRescan /\ last_op \in {"none", "enter_dir"}) =>
        \A fs \in RescanInputs :
            LET built == FreshBuild(app, fs)
            IN built.heap[built.root].is_dir

\* a directory has been entered from a listing that also holds a file
C32_Witness ==
    /\ last_op = "enter_dir"
    /\ Len(app.path_history) = 1
    /\ \E c \in Range(app.heap[app.root].children) : ~app.heap[c].is_dir

----------------------------------------------------------------------------
(* Frame conditions of the sort toggles and of the help overlay, under Spec *)

\* node x is in b what it is in a, but for the order of its children
SameButOrder(a, b, x) ==
    /\ [b.heap[x] EXCEPT !.children = <<>>] = [a.heap[x] EXCEPT !.children = <<>>]
    /\ Len(b.heap[x].children) = Len(a.heap[x].children)
    /\ Range(b.heap[x].children) = Range(a.heap[x].children)

\* C33: each toggle_sort_by_* only permutes the children of the current
\* node and sets sort_mode, sort_ascending and the status message: the
\* current node, the history, the set of children, every node's size and
\* every other node, and the selection index are as before.
C33_ToggleFrame ==
    \A mode \in SortModes :
        LET b == toggle_of(app, mode)
        IN  /\ b.current_node = app.current_node
            /\ b.path_history = app.path_history
            /\ b.root = app.root
            /\ b.selected = app.selected
            /\ b.show_help = app.show_help
            /\ DOMAIN b.heap = DOMAIN app.heap
            /\ SameButOrder(app, b, app.current_node)
            /\ \A x \in DOMAIN app.heap \ {app.current_node} : b.heap[x] = app.heap[x]
            /\ \A x \in DOMAIN app.heap : b.heap[x].size = app.heap[x].size
            /\ b.sort_mode = mode
            /\ b.status_message = SortMessage(b)

\* a toggle has changed the order of the children under a selection that
\* stayed at its index: the selection now designates another child than
\* the one it designated, which a toggle back shows
C33_Witness ==
    /\ last_op \in {"toggle_sort_by_size", "toggle_sort_by_mtime", "toggle_sort_by_count"}
    /\ app.selected = Some(1)
    /\ LET b == toggle_active(app)
       IN  /\ b.selected = Some(1)
           /\ current_children(b)[2] # Children[2]
           /\ Range(current_children(b)) = Range(Children)

\* the place of node x in the sequence of nodes s
IndexIn(s, x) == CHOOSE i \in 1..Len(s) : s[i] = x

\* C34: sort_current_view is stable in both directions: under every metric,
\* ascending and descending, two children with equal keys are after the
\* sort in the order they were in before it.
C34_SortStable ==
    \A mode \in SortModes, ascending \in BOOLEAN :
        LET b == sort_current_view([app EXCEPT !.sort_mode = mode,
                                               !.sort_ascending = ascending])
            after == current_children(b)
        IN \A i, j \in 1..Len(Children) :
            (i < j /\ SortKey(app.heap, mode, Children[i])
                        = SortKey(app.heap, mode, Children[j]))
                => IndexIn(after, Children[i]) < IndexIn(after, Children[j])

\* the children were sorted descending by a toggle, and sorting them the
\* other way moves children while several of them have equal keys
C34_Witness ==
    /\ last_op \in {"toggle_sort_by_size", "toggle_sort_by_mtime", "toggle_sort_by_count"}
    /\ ~app.sort_ascending
    /\ Len(Children) >= 3
    /\ \E i, j \in 1..Len(Children) :
        /\ i < j
        /\ SortKey(app.heap, app.sort_mode, Children[i])
                = SortKey(app.heap, app.sort_mode, Children[j])
    /\ SortKey(app.heap, app.sort_mode, Children[1])
            > SortKey(app.heap, app.sort_mode, Children[Len(Children)])
    /\ current_children(sort_current_view([app EXCEPT !.sort_ascending = TRUE]))
            # Children

\* what a press of key k makes of the App a, when it does not rescan
Pressed(a, k) ==
    LET a1 == [a EXCEPT !.status_message = NoMessage]
    IN run_arm(a1, arm(a1, k), NoFs)

\* C35: while the help overlay is open, a press of any key closes it and
\* does nothing else but clear the status message: the loop goes on, and
\* the current node, the history, the selection, sort_mode, sort_ascending
\* and the tree are as before.  The key has its navigation meaning again
\* at the next press.
C35_HelpSwallowsKey ==
    app.show_help =>
        \A k \in Keys :
            LET a1 == [app EXCEPT !.status_message = NoMessage]
                b == Pressed(app, k)
            IN  /\ arm(a1, k) \in {"close_help", "toggle_help"}
                /\ b = [a1 EXCEPT !.show_help = FALSE]
                /\ \A k2 \in Keys : arm(b, k2) \notin {"close_help"}
                /\ arm(b, "j") = "next" /\ arm(b, "r") = "refresh"

\* the overlay is open over a listing in which "j" would move the
\* selection and "s" would reorder the children; pressed now, they do not
C35_Witness ==
    /\ app.show_help
    /\ last_op = "toggle_help"
    /\ next(app).selected # app.selected
    /\ current_children(toggle_sort_by_size(app)) # Children
    /\ Pressed(app, "j").selected = app.selected
    /\ current_children(Pressed(app, "s")) = Children
    /\ ~Pressed(app, "j").show_help

----------------------------------------------------------------------------
(* Entries the build records but cannot place, checked under SpecScan *)

\* the recorded entry of path p has a parent path that is neither the scan
\* root nor the path of a recorded entry
Orphan(p) == HasParent(p) /\ ~ParentRecorded(p)

\* the paths of the recorded entries
RecordedPaths == {scan.sorted_entries[i].path : i \in 1..Len(scan.sorted_entries)}

\* the recorded paths that are an orphan's or lie below an orphan
LostPaths ==
    {p \in RecordedPaths :
        \E o \in RecordedPaths : Orphan(o) /\ (o = p \/ IsPrefix(o, p))}

\* the sum of the sizes of the recorded files below path p that are not lost
KeptFileSizesBelow(p) ==
    SumSeq([i \in 1..Len(scan.entries) |->
        IF /\ ~scan.entries[i].is_dir
           /\ IsPrefix(p, scan.entries[i].path)
           /\ scan.entries[i].path \notin LostPaths
        THEN scan.entries[i].size ELSE 0])

\* C36: once scan_dir has returned, a recorded entry whose parent path is
\* neither the scan root nor a recorded entry is in no node's children, and
\* neither it nor a recorded entry below it is reached from the returned
\* root; the size of every directory reached from the root is the sum of
\* the recorded files below it that are not lost in this way, and the size
\* of the lost entry is in no node's size but, for a file below it, in that
\* of the lost directories above the file.
C36_OrphansDetached ==
    ScanDone =>
        /\ \A o \in RecordedPaths :
            Orphan(o) => \A y \in DOMAIN scan.heap : TimesChildOf(scan.nodes[o], y) = 0
        /\ \A p \in LostPaths : scan.nodes[p] \notin Reach(scan.heap, scan.root_node)
        /\ \A x \in Reach(scan.heap, scan.root_node) :
            /\ scan.heap[x].path \notin LostPaths
            /\ scan.heap[x].is_dir =>
                scan.heap[x].size = KeptFileSizesBelow(scan.heap[x].path)
        /\ \A y \in DOMAIN scan.heap :
            scan.heap[y].is_dir => scan.heap[y].size = ChildSizes(scan.heap, y)

\* a build has returned in which a directory was recorded below a directory
\* that was not, with a file in it: the file's size is in that directory's
\* size and not in the root's
C36_Witness ==
    /\ ScanDone
    /\ \E o, f \in LostPaths :
        /\ Orphan(o) /\ IsPrefix(o, f)
        /\ scan.heap[scan.nodes[o]].is_dir
        /\ scan.heap[scan.nodes[f]].size > 0
        /\ scan.heap[scan.nodes[o]].size = scan.heap[scan.nodes[f]].size
    /\ scan.heap[scan.root_node].size = 0
    /\ Reach(scan.heap, scan.root_node) = {scan.root_node}

====
